---- MODULE Spec2Model ----
(***************************************************************************)
(* The code generator of gaphor (src/gaphor/codegen/coder.py) as a state   *)
(* machine: load_model's resolve_attribute_type_values, order_classes and  *)
(* the three emission phases of coder.  Names, type strings and output     *)
(* lines are strings, built the way the f-strings of the source build      *)
(* them; elements (classes, properties, packages) are identified by ids,   *)
(* never by their names, as Python objects are.                            *)
(* The main window of the application (src/gaphor/ui/mainwindow.py) is a   *)
(* second state machine over its own variables: its construction, open,    *)
(* shutdown and the events the event manager delivers to its handlers.     *)
(***************************************************************************)
EXTENDS Naturals, Sequences, FiniteSets, TLC

\* Number of UML.Class elements in the model under generation.
NumClasses == 3

\* Number of classes of the models whose classes vary in kind.
NumModelClasses == 2

\* The most attributes that the class Owner has.
NumAttributes == 3

\* The depth of nested order() calls at which the interpreter raises
\* RecursionError: more than any acyclic graph of the models needs.
RecursionLimit == 5

\* The most calls of MainWindow.open on one main window.
MaxOpens == 2

\* Python's None, for names, raw type strings and references alike.
None == "<None>"

VARIABLES
    cls,              \* the UML.Class elements: id -> fields
    prop,             \* the UML.Property elements: id -> fields
    package,          \* the model's packages: id -> [profile, owningPackage]
    model,            \* the element factory: what select() yields, in its order
    super_models,     \* coder's super_models: sequence of [pkg, classes]
    overrides,        \* the override table: [given, header, text, type]
    loaded,           \* history: the properties as storage.load left them
    pc,               \* position of the run
    todo,             \* resolve_attribute_type_values: properties still to visit
    pending,          \* order_classes: the part of `classes` not yet consumed
    stack,            \* order_classes: the active calls of order(c), top last
    seen_classes,     \* order_classes: seen_classes
    classes,          \* the classes yielded by order_classes, in order
    out,              \* the lines coder has yielded so far
    already_imported, \* coder: already_imported
    phase_i,          \* coder: index into `classes` of the running for loop
    log,              \* the warnings logged so far
    block_at,         \* history: where in `out` the block of classes[i] begins,
                      \* and at last where the class blocks end
    listed,           \* history: the classes order_classes has taken from its input
    relisted,         \* history: the input named a class it had named before
    run,              \* which call of coder on the loaded model this is
    first,            \* history: how the first call of coder ended
    main_window,      \* the fields of the MainWindow service
    subscribed,       \* the handlers subscribed to the event manager
    observed          \* history: the calls and the events of the main window

vars == <<cls, prop, package, model, super_models, overrides, loaded, pc, todo,
          pending, stack, seen_classes, classes, out, already_imported, phase_i,
          log, block_at, listed, relisted, run, first, main_window,
          subscribed, observed>>

window_vars == <<main_window, subscribed, observed>>

coder_vars == <<cls, prop, package, model, super_models, overrides, loaded, pc,
                todo, pending, stack, seen_classes, classes, out,
                already_imported, phase_i, log, block_at, listed, relisted,
                run, first>>

model_vars == <<cls, prop, package, model, super_models, overrides, loaded>>

\* ----------------------------------------------------------------- helpers

Classes == {"c" \o ToString(i) : i \in 1..NumClasses}

Cid(i) == "c" \o ToString(i)

Range(s) == {s[i] : i \in 1..Len(s)}

\* str.startswith / str.endswith
startswith(s, prefix) ==
    /\ Len(s) >= Len(prefix)
    /\ SubSeq(s, 1, Len(prefix)) = prefix

endswith(s, suffix) ==
    /\ Len(s) >= Len(suffix)
    /\ SubSeq(s, Len(s) - Len(suffix) + 1, Len(s)) = suffix

\* What an f-string prints for a value that may be None.
fmt(v) == IF v = None THEN "None" ELSE v

\* Python truthiness of an optional string.
truthy(v) == v # None /\ v # ""

\* All sequences without repetition over the set S.
RECURSIVE Arrangements(_)
Arrangements(S) ==
    {<<>>} \cup UNION {{<<x>> \o t : t \in Arrangements(S \ {x})} : x \in S}

\* ------------------------------------------------------- Python strings

\* The characters of the names, in code point order.
Alphabet == " ,.0123456789<>ABCDEFGHIJKLMNOPQRSTUVWXYZ_abcdefghijklmnopqrstuvwxyz~"

UpperCase == "ABCDEFGHIJKLMNOPQRSTUVWXYZ"

LowerCase == "abcdefghijklmnopqrstuvwxyz"

char(s, i) == SubSeq(s, i, i)

index_in(ch, letters) ==
    IF \E i \in 1..Len(letters) : char(letters, i) = ch
      THEN CHOOSE i \in 1..Len(letters) : char(letters, i) = ch
    ELSE 0

\* a < b for two strings: the first differing character decides.
RECURSIVE str_lt(_, _)
str_lt(a, b) ==
    IF b = "" THEN FALSE
    ELSE IF a = "" THEN TRUE
    ELSE IF char(a, 1) = char(b, 1)
      THEN str_lt(SubSeq(a, 2, Len(a)), SubSeq(b, 2, Len(b)))
    ELSE index_in(char(a, 1), Alphabet) < index_in(char(b, 1), Alphabet)

\* sorted(seq, key=...): stable, ascending in key[x].
RECURSIVE sorted(_, _)
sorted(seq, key) ==
    IF seq = <<>> THEN <<>>
    ELSE LET n == Len(seq)
             init == sorted(SubSeq(seq, 1, n - 1), key)
             x == seq[n]
             at == Cardinality({i \in 1..(n - 1) : ~str_lt(key[x], key[init[i]])})
         IN SubSeq(init, 1, at) \o <<x>> \o SubSeq(init, at + 1, n - 1)

\* sep.join(parts)
RECURSIVE join(_, _)
join(sep, parts) ==
    IF parts = <<>> THEN ""
    ELSE IF Len(parts) = 1 THEN parts[1]
    ELSE parts[1] \o sep \o join(sep, Tail(parts))

\* s.split(",")
RECURSIVE split_comma(_)
split_comma(s) ==
    IF \E i \in 1..Len(s) : char(s, i) = ","
      THEN LET i == CHOOSE k \in 1..Len(s) :
                      /\ char(s, k) = ","
                      /\ \A j \in 1..(k - 1) : char(s, j) # ","
           IN <<SubSeq(s, 1, i - 1)>> \o split_comma(SubSeq(s, i + 1, Len(s)))
    ELSE <<s>>

\* s.strip()
RECURSIVE strip(_)
strip(s) ==
    IF s = "" THEN s
    ELSE IF char(s, 1) = " " THEN strip(SubSeq(s, 2, Len(s)))
    ELSE IF char(s, Len(s)) = " " THEN strip(SubSeq(s, 1, Len(s) - 1))
    ELSE s

\* s.title(): the first letter of every run of letters in upper case, the
\* other letters in lower case.
RECURSIVE title_from(_, _)
title_from(s, in_word) ==
    IF s = "" THEN ""
    ELSE LET ch == char(s, 1)
             u == index_in(ch, UpperCase)
             l == index_in(ch, LowerCase)
             k == IF u > 0 THEN u ELSE l
         IN IF k = 0 THEN ch \o title_from(SubSeq(s, 2, Len(s)), FALSE)
            ELSE (IF in_word THEN char(LowerCase, k) ELSE char(UpperCase, k))
                 \o title_from(SubSeq(s, 2, Len(s)), TRUE)

title(s) == title_from(s, FALSE)

\* sub in s
contains(s, sub) ==
    \E i \in 1..(Len(s) - Len(sub) + 1) : SubSeq(s, i, i + Len(sub) - 1) = sub

\* ------------------------------------------------------- the element graph

\* The properties of class c that have an association and the name
\* "baseClass", as the metaclasses their associations' owned ends belong to.
RECURSIVE MetaBases(_)
MetaBases(attrs) ==
    IF attrs = <<>> THEN <<>>
    ELSE LET a == prop[Head(attrs)] IN
         (IF a.association # None /\ a.name = "baseClass"
            THEN <<a.ownedEndClass>> ELSE <<>>) \o MetaBases(Tail(attrs))

\* bases(c): the generals of c's generalizations, then the metaclasses.
bases(c) == cls[c].generalization \o MetaBases(cls[c].ownedAttribute)

\* is_enumeration(c): c and c.name and c.name ends in "Kind" or "Sort".
is_enumeration(c) ==
    /\ c # None
    /\ truthy(cls[c].name)
    /\ (endswith(cls[c].name, "Kind") \/ endswith(cls[c].name, "Sort"))

\* is_simple_type(c): the SimpleAttribute stereotype is applied to c or to a
\* class reached over generalizations.
RECURSIVE is_simple_type(_)
is_simple_type(c) ==
    \/ "SimpleAttribute" \in cls[c].appliedStereotype
    \/ \E i \in 1..Len(cls[c].generalization) :
          is_simple_type(cls[c].generalization[i])

is_tilde_type(c) ==
    /\ c # None
    /\ truthy(cls[c].name)
    /\ startswith(cls[c].name, "~")

\* is_in_profile(c): test(c.owningPackage), up the chain of owning packages.
RECURSIVE in_profile_test(_)
in_profile_test(p) ==
    \/ package[p].profile
    \/ (package[p].owningPackage # None
          /\ in_profile_test(package[p].owningPackage))

is_in_profile(c) == in_profile_test(cls[c].owningPackage)

\* is_extension_end(a): a.association is a UML.Extension.
is_extension_end(a) == prop[a].association = "Extension"

\* ------------------------------------------------------------ order_classes

\* A call order(c) stands at the i-th element of bases(c).
Frame(c) == [c |-> c, i |-> 1]

order_call_unchecked(c, stk) == Append(stk, Frame(c))

order_call_unless_running(c, stk) ==
    IF c \notin seen_classes /\ \A k \in 1..Len(stk) : stk[k].c # c
      THEN Append(stk, Frame(c)) ELSE stk

\* The call order(c): `if c not in seen_classes`, else it returns at once.
order_call(c, stk) ==
    IF c \notin seen_classes THEN Append(stk, Frame(c)) ELSE stk

more_bases_generalization_only(f) == f.i <= Len(cls[f.c].generalization)

\* `for b in bases(c)` has a next element.
more_bases(f) == f.i <= Len(bases(f.c))

\* `for c in classes: yield from order(c)`: the next class of the input.
OrderNext ==
    /\ pc = "order"
    /\ stack = <<>>
    /\ pending # <<>>
    /\ stack' = order_call(Head(pending), <<>>)
    /\ pending' = Tail(pending)
    /\ listed' = listed \cup {Head(pending)}
    /\ relisted' = (relisted \/ Head(pending) \in listed)
    /\ UNCHANGED window_vars
    /\ UNCHANGED <<model_vars, run, first, pc, todo, seen_classes, classes,
                   out, already_imported, phase_i, log, block_at>>

\* `for b in bases(c): yield from order(b)`: the next base of the running call.
OrderDescend ==
    /\ pc = "order"
    /\ stack # <<>>
    /\ LET n == Len(stack)
           f == stack[n]
       IN /\ more_bases(f)
          /\ n < RecursionLimit
          /\ stack' = order_call(bases(f.c)[f.i],
                                 [stack EXCEPT ![n].i = f.i + 1])
    /\ UNCHANGED window_vars
    /\ UNCHANGED <<model_vars, run, first, pc, todo, pending, seen_classes,
                   classes, out, already_imported, phase_i, log, block_at,
                   listed, relisted>>

\* `yield from order(b)` at the deepest call the interpreter allows: the
\* RecursionError leaves order_classes and list(order_classes(...)).
OrderOverflow ==
    /\ pc = "order"
    /\ stack # <<>>
    /\ more_bases(stack[Len(stack)])
    /\ Len(stack) >= RecursionLimit
    /\ pc' = "error"
    /\ UNCHANGED window_vars
    /\ UNCHANGED <<model_vars, run, first, todo, pending, stack, seen_classes,
                   classes, out, already_imported, phase_i, log, block_at,
                   listed, relisted>>

\* `yield c; seen_classes.add(c)`, and the call returns.
OrderYield ==
    /\ pc = "order"
    /\ stack # <<>>
    /\ LET n == Len(stack)
           f == stack[n]
       IN /\ ~more_bases(f)
          /\ classes' = Append(classes, f.c)
          /\ seen_classes' = seen_classes \cup {f.c}
          /\ stack' = SubSeq(stack, 1, n - 1)
    /\ UNCHANGED window_vars
    /\ UNCHANGED <<model_vars, run, first, pc, todo, pending, out,
                   already_imported, phase_i, log, block_at, listed, relisted>>

\* The input is exhausted: list(order_classes(...)) is complete.
OrderReturn ==
    /\ pc = "order"
    /\ stack = <<>>
    /\ pending = <<>>
    /\ pc' = "header"
    /\ UNCHANGED window_vars
    /\ UNCHANGED <<model_vars, run, first, todo, pending, stack, seen_classes,
                   classes, out, already_imported, phase_i, log, block_at,
                   listed, relisted>>

\* order_classes on its own: its caller hands it any class, any number of times.
OrderFeed ==
    /\ pc = "order"
    /\ stack = <<>>
    /\ pending = <<>>
    /\ \E c \in Range(model.Class) : pending' = <<c>>
    /\ UNCHANGED window_vars
    /\ UNCHANGED <<model_vars, run, first, pc, todo, stack, seen_classes,
                   classes, out, already_imported, phase_i, log, block_at,
                   listed, relisted>>

\* -------------------------------------------- resolve_attribute_type_values

\* next(element_factory.select(Class named `name`), None): the first class of
\* the factory with that name; a class without a name has the name None.
class_named(name) ==
    LET hits == {i \in 1..Len(model.Class) : cls[model.Class[i]].name = name}
    IN IF hits = {} THEN None
       ELSE model.Class[CHOOSE i \in hits : \A j \in hits : i <= j]

canonical_type_value_int_as_str(tv) ==
    IF tv \in {"String", "str", "object", "Integer", "int"} THEN "str"
    ELSE IF tv \in {"Boolean", "bool", "UnlimitedNatural"} THEN "int"
    ELSE tv

\* The two alias tables: the canonical name of a raw type string, or the
\* string itself when it is no alias.
canonical_type_value(tv) ==
    IF tv \in {"String", "str", "object"} THEN "str"
    ELSE IF tv \in {"Integer", "int", "Boolean", "bool", "UnlimitedNatural"}
      THEN "int"
    ELSE tv

is_alias(tv) ==
    tv \in {"String", "str", "object",
            "Integer", "int", "Boolean", "bool", "UnlimitedNatural"}

\* The first if/elif/else of the loop body: aliases are canonicalized, any
\* other value is looked up as a class name.
resolve_type_value(a) ==
    IF is_alias(a.typeValue)
      THEN [a EXCEPT !.typeValue = canonical_type_value(a.typeValue)]
    ELSE LET c == class_named(a.typeValue)
         IN IF c # None THEN [a EXCEPT !.type = c, !.typeValue = None] ELSE a

simple_type_to_str_keeps_type(a) == a

\* `if prop.type and is_simple_type(prop.type)`: the property becomes a str.
simple_type_to_str(a) ==
    IF a.type # None /\ is_simple_type(a.type)
      THEN [a EXCEPT !.typeValue = "str", !.type = None]
    ELSE a

type_not_found_rejects_none(a) ==
    ~(a.type # None \/ a.typeValue \in {"str", "int"})

\* `if not (prop.type or prop.typeValue in ("str", "int", None))`
type_not_found(a) ==
    ~(a.type # None \/ a.typeValue \in {"str", "int", None})

\* One pass of the loop over element_factory.select(UML.Property): the
\* property is updated in place, then the run fails if its type is unknown.
ResolveProperty ==
    /\ pc = "resolve"
    /\ todo # <<>>
    /\ \E a \in {simple_type_to_str(resolve_type_value(prop[Head(todo)]))} :
          /\ prop' = [prop EXCEPT ![Head(todo)] = a]
          /\ todo' = Tail(todo)
          /\ pc' = IF type_not_found(a) THEN "error" ELSE "resolve"
    /\ UNCHANGED window_vars
    /\ UNCHANGED <<run, first, cls, package, model, super_models, overrides,
                   loaded, pending, stack, seen_classes, classes, out,
                   already_imported, phase_i, log, block_at, listed, relisted>>

\* The loop is over: load_model returns the factory.
ResolveReturn ==
    /\ pc = "resolve"
    /\ todo = <<>>
    /\ pc' = "coder"
    /\ UNCHANGED window_vars
    /\ UNCHANGED <<model_vars, run, first, todo, pending, stack, seen_classes,
                   classes, out, already_imported, phase_i, log, block_at,
                   listed, relisted>>

\* ------------------------------------------------------------ the overrides

\* `overrides and overrides.has_override(key)`
has_override(key) == overrides.given /\ key \in DOMAIN overrides.text

get_override(key) == overrides.text[key]

get_type(key) == overrides.type[key]

\* ------------------------------------------------------------ the emitters

\* The result of running a generator to its end: the lines it yielded, the
\* warnings it logged, and whether it ended by raising.
Result(lines, warnings, raised) ==
    [lines |-> lines, log |-> warnings, raised |-> raised]

header ==
    "# This file is generated by coder.py. DO NOT EDIT!\n"
    \o "# isort: skip_file\n# flake8: noqa F401,F811\n# fmt: off\n\n"
    \o "from __future__ import annotations\n\n"
    \o "from gaphor.core.modeling.properties import (\n    association,\n"
    \o "    attribute as _attribute,\n    derived,\n    derivedunion,\n"
    \o "    enumeration as _enumeration,\n    redefine,\n    relation_many,\n"
    \o "    relation_one,\n)\n\n"

\* in_super_model(name, super_models): the first class of that name, in the
\* order of the super models and of their factories, that is neither in a
\* profile nor an enumeration.
RECURSIVE first_super_class(_, _)
first_super_class(name, candidates) ==
    IF candidates = <<>> THEN None
    ELSE LET c == Head(candidates)
         IN IF cls[c].name = name /\ ~(is_in_profile(c) \/ is_enumeration(c))
              THEN c
            ELSE first_super_class(name, Tail(candidates))

RECURSIVE in_super_model(_, _)
in_super_model(name, supers) ==
    IF supers = <<>> THEN [found |-> FALSE, pkg |-> None, cls |-> None]
    ELSE LET c == first_super_class(name, Head(supers).factory.Class)
         IN IF c # None
              THEN [found |-> TRUE, pkg |-> Head(supers).pkg, cls |-> c]
            ELSE in_super_model(name, Tail(supers))

class_declaration_object_default(c) ==
    LET bs == bases(c)
        key == [b \in Range(bs) |-> cls[b].name]
        names == [i \in 1..Len(bs) |-> cls[sorted(bs, key)[i]].name]
    IN "class " \o fmt(cls[c].name) \o "("
       \o (IF bs = <<>> THEN "object" ELSE join(", ", names)) \o "):"

\* class_declaration(class_), for bases that all have a name.
class_declaration(c) ==
    LET bs == bases(c)
        key == [b \in Range(bs) |-> cls[b].name]
        names == [i \in 1..Len(bs) |-> cls[sorted(bs, key)[i]].name]
    IN "class " \o fmt(cls[c].name) \o "(" \o join(", ", names) \o "):"

\* sorted() compares the names and join() takes strings only: a base without
\* a name makes class_declaration raise TypeError.
class_declaration_raises(c) ==
    \E b \in Range(bases(c)) : cls[b].name = None

\* default_value(a)
default_value_raises(a) ==
    truthy(a.defaultValue) /\ a.typeValue \notin {"int", "str"}

default_value(a) ==
    IF ~truthy(a.defaultValue) THEN ""
    ELSE IF a.typeValue = "int" THEN ", default=" \o title(a.defaultValue)
    ELSE ", default=\"" \o a.defaultValue \o "\""

\* MultiplicityElement.upper is the upperValue.
upper_bound(a) == a.upperValue

\* is_reassignment(a): an attribute of the same name in a class reached over
\* bases() from the owner.
RECURSIVE reassignment_test(_, _)
reassignment_test(c, name) ==
    \/ \E i \in 1..Len(cls[c].ownedAttribute) :
          prop[cls[c].ownedAttribute[i]].name = name
    \/ \E b \in Range(bases(c)) : reassignment_test(b, name)

is_reassignment(a) ==
    \E b \in Range(bases(a.class_)) : reassignment_test(b, a.name)

name_key(names) == [n \in names |-> IF truthy(n) THEN n ELSE ""]

attribute_key(attrs) ==
    [p \in Range(attrs) |-> IF truthy(prop[p].name) THEN prop[p].name ELSE ""]

\* The enumeration literals of an enumeration class, quoted and joined.
enum_values(e) ==
    join(", ", [i \in 1..Len(cls[e].ownedAttribute) |->
                  "\"" \o fmt(prop[cls[e].ownedAttribute[i]].name) \o "\""])

\* Two generators run one after the other; a raise ends the run.
then(r1, r2) ==
    IF r1.raised THEN r1
    ELSE Result(r1.lines \o r2.lines, r1.log \o r2.log, r2.raised)

Nothing == Result(<<>>, <<>>, FALSE)

Yield(line) == Result(<<line>>, <<>>, FALSE)

Warning(text) == Result(<<>>, <<text>>, FALSE)

Raise == Result(<<>>, <<>>, TRUE)

\* variables(): the body of the loop over the sorted owned attributes.
variable_of(c, p) ==
    LET a == prop[p]
        full_name == fmt(cls[c].name) \o "." \o fmt(a.name)
    IN IF is_extension_end(p) THEN Nothing
       ELSE IF has_override(full_name)
         THEN Yield(fmt(a.name) \o ": " \o get_type(full_name))
       ELSE IF a.isDerived /\ a.type = None
         THEN Warning("Derived attribute " \o full_name
                      \o " has no implementation.")
       ELSE IF truthy(a.typeValue)
         THEN IF default_value_raises(a) THEN Raise
              ELSE Yield(fmt(a.name) \o ": _attribute[" \o a.typeValue
                         \o "] = _attribute(\"" \o fmt(a.name) \o "\", "
                         \o a.typeValue \o default_value(a) \o ")")
       ELSE IF is_enumeration(a.type)
         THEN IF cls[a.type].ownedAttribute = <<>> THEN Raise
              ELSE Yield(fmt(a.name) \o " = _enumeration(\"" \o fmt(a.name)
                         \o "\", (" \o enum_values(a.type) \o "), \""
                         \o fmt(prop[cls[a.type].ownedAttribute[1]].name)
                         \o "\")")
       ELSE IF a.type # None
         THEN Yield(fmt(a.name) \o ": relation_"
                    \o (IF upper_bound(a) = "1" THEN "one" ELSE "many")
                    \o "[" \o fmt(cls[a.type].name) \o "]"
                    \o (IF is_reassignment(a)
                          THEN "  # type: ignore[assignment]" ELSE ""))
       ELSE Raise

variable_of_operation_strict(c, o) ==
    IF has_override(fmt(cls[c].name) \o "." \o fmt(o))
      THEN Yield(fmt(o) \o ": "
                 \o get_type(fmt(cls[c].name) \o "." \o fmt(o)))
    ELSE Raise

\* variables(): the body of the loop over the sorted owned operations.
variable_of_operation(c, o) ==
    LET full_name == fmt(cls[c].name) \o "." \o fmt(o)
    IN IF has_override(full_name)
         THEN Yield(fmt(o) \o ": " \o get_type(full_name))
       ELSE Warning("Operation " \o full_name \o " has no implementation")

RECURSIVE variables_attributes(_, _)
variables_attributes(c, attrs) ==
    IF attrs = <<>> THEN Nothing
    ELSE then(variable_of(c, Head(attrs)), variables_attributes(c, Tail(attrs)))

RECURSIVE variables_operations(_, _)
variables_operations(c, ops) ==
    IF ops = <<>> THEN Nothing
    ELSE then(variable_of_operation(c, Head(ops)),
              variables_operations(c, Tail(ops)))

\* variables(class_, overrides)
variables(c) ==
    then(variables_attributes(c, sorted(cls[c].ownedAttribute,
                                        attribute_key(cls[c].ownedAttribute))),
         variables_operations(c, sorted(cls[c].ownedOperation,
                                        name_key(Range(cls[c].ownedOperation)))))

\* operations(c, overrides)
RECURSIVE operations_of(_, _)
operations_of(c, ops) ==
    IF ops = <<>> THEN <<>>
    ELSE LET full_name == fmt(cls[c].name) \o "." \o fmt(Head(ops))
         IN (IF has_override(full_name) THEN <<get_override(full_name)>>
             ELSE <<>>) \o operations_of(c, Tail(ops))

operations(c) ==
    operations_of(c, sorted(cls[c].ownedOperation,
                            name_key(Range(cls[c].ownedOperation))))

lower(a) ==
    IF a.lowerValue \in {None, "0"} THEN "" ELSE ", lower=" \o a.lowerValue

upper_omits_one(a) ==
    IF a.upperValue \in {None, "*", "1"} THEN "" ELSE ", upper=" \o a.upperValue

upper(a) ==
    IF a.upperValue \in {None, "*"} THEN "" ELSE ", upper=" \o a.upperValue

composite(a) ==
    IF a.aggregation = "composite" THEN ", composite=True" ELSE ""

opposite_of_any_named_end(a) ==
    IF a.opposite # None /\ truthy(prop[a.opposite].name)
      THEN ", opposite=\"" \o prop[a.opposite].name \o "\""
    ELSE ""

opposite(a) ==
    IF /\ a.opposite # None
       /\ truthy(prop[a.opposite].name)
       /\ prop[a.opposite].class_ # None
      THEN ", opposite=\"" \o prop[a.opposite].name \o "\""
    ELSE ""

\* The value of the first slot of the applied stereotypes whose defining
\* feature has the given name, or None.
RECURSIVE slot_value(_, _)
slot_value(slots, name) ==
    IF slots = <<>> THEN None
    ELSE IF Head(slots).definingFeature = name THEN Head(slots).value
    ELSE slot_value(Tail(slots), name)

redefines(a) == slot_value(a.slot, "redefines")

\* The attributes that associations() and subsets() pass over.
no_association(p) ==
    \/ prop[p].type = None
    \/ is_simple_type(prop[p].type)
    \/ is_enumeration(prop[p].type)
    \/ is_extension_end(p)

association_of_unnamed_written(c, p) ==
    LET a == prop[p]
        full_name == fmt(cls[c].name) \o "." \o fmt(a.name)
    IN IF has_override(full_name) THEN Yield(get_override(full_name))
       ELSE IF no_association(p) THEN Nothing
       ELSE IF truthy(redefines(a)) THEN Nothing
       ELSE IF a.isDerived
         THEN Yield(full_name \o " = derivedunion(\"" \o fmt(a.name) \o "\", "
                    \o fmt(cls[a.type].name) \o lower(a) \o upper(a) \o ")")
       ELSE Yield(full_name \o " = association(\"" \o fmt(a.name) \o "\", "
                  \o fmt(cls[a.type].name) \o lower(a) \o upper(a)
                  \o composite(a) \o opposite(a) \o ")")

association_of_override_last(c, p) ==
    LET a == prop[p]
        full_name == fmt(cls[c].name) \o "." \o fmt(a.name)
    IN IF no_association(p) THEN Nothing
       ELSE IF has_override(full_name) THEN Yield(get_override(full_name))
       ELSE IF truthy(redefines(a)) THEN Nothing
       ELSE IF a.isDerived
         THEN Yield(full_name \o " = derivedunion(\"" \o fmt(a.name) \o "\", "
                    \o fmt(cls[a.type].name) \o lower(a) \o upper(a) \o ")")
       ELSE IF ~truthy(a.name) THEN Raise
       ELSE Yield(full_name \o " = association(\"" \o a.name \o "\", "
                  \o fmt(cls[a.type].name) \o lower(a) \o upper(a)
                  \o composite(a) \o opposite(a) \o ")")

\* associations(): what the loop body yields at once for one attribute, the
\* redefinition it puts aside, or the raise.
association_of(c, p) ==
    LET a == prop[p]
        full_name == fmt(cls[c].name) \o "." \o fmt(a.name)
    IN IF has_override(full_name) THEN Yield(get_override(full_name))
       ELSE IF no_association(p) THEN Nothing
       ELSE IF truthy(redefines(a)) THEN Nothing
       ELSE IF a.isDerived
         THEN Yield(full_name \o " = derivedunion(\"" \o fmt(a.name) \o "\", "
                    \o fmt(cls[a.type].name) \o lower(a) \o upper(a) \o ")")
       ELSE IF ~truthy(a.name) THEN Raise
       ELSE Yield(full_name \o " = association(\"" \o a.name \o "\", "
                  \o fmt(cls[a.type].name) \o lower(a) \o upper(a)
                  \o composite(a) \o opposite(a) \o ")")

redefinition_of(c, p) ==
    LET a == prop[p]
        full_name == fmt(cls[c].name) \o "." \o fmt(a.name)
    IN IF /\ ~has_override(full_name)
          /\ ~no_association(p)
          /\ truthy(redefines(a))
         THEN <<full_name \o " = redefine(" \o fmt(cls[c].name) \o ", \""
                \o fmt(a.name) \o "\", " \o fmt(cls[a.type].name) \o ", "
                \o redefines(a) \o ")">>
       ELSE <<>>

RECURSIVE associations_yielded(_, _)
associations_yielded(c, attrs) ==
    IF attrs = <<>> THEN Nothing
    ELSE then(association_of(c, Head(attrs)),
              associations_yielded(c, Tail(attrs)))

RECURSIVE redefinitions(_, _)
redefinitions(c, attrs) ==
    IF attrs = <<>> THEN <<>>
    ELSE redefinition_of(c, Head(attrs)) \o redefinitions(c, Tail(attrs))

RECURSIVE associations_undeferred_of(_, _)
associations_undeferred_of(c, attrs) ==
    IF attrs = <<>> THEN Nothing
    ELSE then(then(association_of(c, Head(attrs)),
                   Result(redefinition_of(c, Head(attrs)), <<>>, FALSE)),
              associations_undeferred_of(c, Tail(attrs)))

associations_undeferred(c) ==
    associations_undeferred_of(c, cls[c].ownedAttribute)

\* associations(c, overrides): the lines of the loop, then the redefinitions.
associations(c) ==
    then(associations_yielded(c, cls[c].ownedAttribute),
         Result(redefinitions(c, cls[c].ownedAttribute), <<>>, FALSE))

\* The first owned attribute of c with the given name, or None.
RECURSIVE first_named(_, _)
first_named(attrs, name) ==
    IF attrs = <<>> THEN None
    ELSE IF prop[Head(attrs)].name = name THEN Head(attrs)
    ELSE first_named(Tail(attrs), name)

attribute_own_only(c, name, supers) ==
    [pkg |-> None, a |-> first_named(cls[c].ownedAttribute, name)]

\* attribute(c, name, super_models): (pkg, property) of the attribute found in
\* c itself, else over bases(c), else in the super model class of c's name.
RECURSIVE attribute(_, _, _)
RECURSIVE attribute_of_bases(_, _, _)
attribute(c, name, supers) ==
    LET own == first_named(cls[c].ownedAttribute, name)
        inherited == attribute_of_bases(bases(c), name, supers)
        maybe_super == in_super_model(cls[c].name, supers)
    IN IF own # None THEN [pkg |-> None, a |-> own]
       ELSE IF inherited.a # None THEN inherited
       ELSE IF maybe_super.found
         THEN [pkg |-> maybe_super.pkg,
               a |-> attribute(maybe_super.cls, name, <<>>).a]
       ELSE [pkg |-> None, a |-> None]

attribute_of_bases(bs, name, supers) ==
    IF bs = <<>> THEN [pkg |-> None, a |-> None]
    ELSE LET found == attribute(Head(bs), name, supers)
         IN IF found.a # None THEN found
            ELSE attribute_of_bases(Tail(bs), name, supers)

\* subsets(): the body of `for value in slot.value.split(",")`.
subset_of(c, p, value) ==
    LET full_name == fmt(cls[c].name) \o "." \o fmt(prop[p].name)
        found == attribute(c, strip(value), super_models)
        d == found.a
        owner_name == fmt(cls[prop[d].class_].name)
    IN IF d # None /\ prop[d].isDerived
         THEN Result((IF truthy(found.pkg)
                        THEN <<"from " \o found.pkg \o " import " \o owner_name>>
                      ELSE <<>>)
                     \o <<owner_name \o "." \o fmt(prop[d].name) \o ".add("
                          \o full_name \o ")  # type: ignore[attr-defined]">>,
                     <<>>, FALSE)
       ELSE IF d = None
         THEN Warning(full_name \o " wants to subset " \o strip(value)
                      \o ", but it is not defined")
       ELSE Warning(full_name \o " wants to subset " \o strip(value)
                    \o ", but it is not a derived union")

RECURSIVE subsets_of_values(_, _, _)
subsets_of_values(c, p, values) ==
    IF values = <<>> THEN Nothing
    ELSE then(subset_of(c, p, Head(values)),
              subsets_of_values(c, p, Tail(values)))

RECURSIVE subsets_of_slots(_, _, _)
subsets_of_slots(c, p, slots) ==
    IF slots = <<>> THEN Nothing
    ELSE then(IF Head(slots).definingFeature = "subsets"
                THEN subsets_of_values(c, p, split_comma(Head(slots).value))
              ELSE Nothing,
              subsets_of_slots(c, p, Tail(slots)))

RECURSIVE subsets_of_attributes(_, _)
subsets_of_attributes(c, attrs) ==
    IF attrs = <<>> THEN Nothing
    ELSE then(IF no_association(Head(attrs)) THEN Nothing
              ELSE subsets_of_slots(c, Head(attrs), prop[Head(attrs)].slot),
              subsets_of_attributes(c, Tail(attrs)))

subsets_with_associations(c) ==
    then(subsets_of_attributes(c, cls[c].ownedAttribute), associations(c))

\* subsets(c, super_models)
subsets(c) == subsets_of_attributes(c, cls[c].ownedAttribute)

\* coder's loop over the lines of subsets(): an import line is yielded unless
\* it is in already_imported, and is added to it.
RECURSIVE import_once(_, _)
import_once(lines, imported) ==
    IF lines = <<>> THEN [lines |-> <<>>, imported |-> imported]
    ELSE LET line == Head(lines)
             is_import == startswith(line, "from ")
             rest == import_once(Tail(lines),
                                 IF is_import THEN imported \cup {line}
                                 ELSE imported)
         IN [lines |-> (IF is_import /\ line \in imported THEN <<>>
                        ELSE <<line>>) \o rest.lines,
             imported |-> rest.imported]

\* ---------------------------------------------------------------- coder

RECURSIVE select_if(_, _)
select_if(seq, keep) ==
    IF seq = <<>> THEN <<>>
    ELSE (IF Head(seq) \in keep THEN <<Head(seq)>> ELSE <<>>)
         \o select_if(Tail(seq), keep)

\* The classes coder hands to order_classes.
generated(c) ==
    ~(is_enumeration(c) \/ is_simple_type(c) \/ is_in_profile(c)
      \/ is_tilde_type(c))

kept_set(old) == old

\* `already_imported = set()` and `seen_classes = set()`: the name is bound to
\* a new empty set, whatever it was bound to in a call before.
new_set(old) == {}

\* coder is called: order_classes gets the classes of the model that are
\* neither enumerations, simple types, profile classes nor tilde types.
CoderStart ==
    /\ pc = "coder"
    /\ already_imported' = new_set(already_imported)
    /\ seen_classes' = new_set(seen_classes)
    /\ pending' = select_if(model.Class, {c \in Range(model.Class) : generated(c)})
    /\ pc' = "order"
    /\ UNCHANGED window_vars
    /\ UNCHANGED <<model_vars, run, first, todo, stack, classes, out, phase_i,
                   log, block_at, listed, relisted>>

\* `yield header`, and the header of the overrides.
EmitHeader ==
    /\ pc = "header"
    /\ out' = <<header>> \o (IF overrides.given /\ truthy(overrides.header)
                               THEN <<overrides.header>> ELSE <<>>)
    /\ pc' = "class_blocks"
    /\ phase_i' = 1
    /\ UNCHANGED window_vars
    /\ UNCHANGED <<model_vars, run, first, todo, pending, stack, seen_classes,
                   classes, already_imported, log, block_at, listed, relisted>>

indent(lines) == [i \in 1..Len(lines) |-> "    " \o lines[i]]

class_body_without_placeholder(properties) == indent(properties)

\* The body of a class declaration: `if properties: ... else: yield "    pass"`.
class_body(properties) ==
    IF properties # <<>> THEN indent(properties) ELSE <<"    pass">>

class_block_super_model_first(c) ==
    LET super_class == in_super_model(cls[c].name, super_models)
        line == "from " \o super_class.pkg \o " import "
                \o fmt(cls[super_class.cls].name)
        properties == variables(c)
    IN IF super_class.found
         THEN [lines |-> <<line>>, imported |-> {line}, log |-> <<>>,
               raised |-> FALSE]
       ELSE IF has_override(cls[c].name)
         THEN [lines |-> <<get_override(cls[c].name)>>, imported |-> {},
               log |-> <<>>, raised |-> FALSE]
       ELSE IF class_declaration_raises(c)
         THEN [lines |-> <<>>, imported |-> {}, log |-> <<>>, raised |-> TRUE]
       ELSE [lines |-> <<class_declaration(c)>>
                       \o (IF properties.raised THEN <<>>
                           ELSE class_body(properties.lines) \o <<"", "">>),
             imported |-> {}, log |-> properties.log,
             raised |-> properties.raised]

\* The body of the first `for c in classes`: the override of the class, the
\* import of the class from a super model, or its declaration and properties;
\* with the lines it adds to already_imported.
class_block(c) ==
    LET super_class == in_super_model(cls[c].name, super_models)
        line == "from " \o super_class.pkg \o " import "
                \o fmt(cls[super_class.cls].name)
        properties == variables(c)
    IN IF has_override(cls[c].name)
         THEN [lines |-> <<get_override(cls[c].name)>>, imported |-> {},
               log |-> <<>>, raised |-> FALSE]
       ELSE IF super_class.found
         THEN [lines |-> <<line>>, imported |-> {line}, log |-> <<>>,
               raised |-> FALSE]
       ELSE IF class_declaration_raises(c)
         THEN [lines |-> <<>>, imported |-> {}, log |-> <<>>, raised |-> TRUE]
       ELSE [lines |-> <<class_declaration(c)>>
                       \o (IF properties.raised THEN <<>>
                           ELSE class_body(properties.lines) \o <<"", "">>),
             imported |-> {}, log |-> properties.log,
             raised |-> properties.raised]

\* One pass of the first `for c in classes`.
ClassBlock ==
    /\ pc = "class_blocks"
    /\ phase_i <= Len(classes)
    /\ \E block \in {class_block(classes[phase_i])} :
          /\ out' = out \o block.lines
          /\ block_at' = Append(block_at, Len(out) + 1)
          /\ already_imported' = already_imported \cup block.imported
          /\ log' = log \o block.log
          /\ pc' = IF block.raised THEN "error" ELSE pc
    /\ phase_i' = phase_i + 1
    /\ UNCHANGED window_vars
    /\ UNCHANGED <<model_vars, run, first, todo, pending, stack, seen_classes,
                   classes, listed, relisted>>

\* The first loop is over; the second `for c in classes` begins.
ClassBlocksDone ==
    /\ pc = "class_blocks"
    /\ phase_i > Len(classes)
    /\ pc' = "operations"
    /\ phase_i' = 1
    /\ block_at' = Append(block_at, Len(out) + 1)
    /\ UNCHANGED window_vars
    /\ UNCHANGED <<model_vars, run, first, todo, pending, stack, seen_classes,
                   classes, out, already_imported, log, listed, relisted>>

\* One pass of the second loop: `yield from operations(c, overrides)`.
OperationsBlock ==
    /\ pc = "operations"
    /\ phase_i <= Len(classes)
    /\ out' = out \o operations(classes[phase_i])
    /\ phase_i' = phase_i + 1
    /\ UNCHANGED window_vars
    /\ UNCHANGED <<model_vars, run, first, pc, todo, pending, stack,
                   seen_classes, classes, already_imported, log, block_at,
                   listed, relisted>>

\* The second loop is over: `yield ""`, and the third loop begins.
OperationsDone ==
    /\ pc = "operations"
    /\ phase_i > Len(classes)
    /\ out' = Append(out, "")
    /\ pc' = "associations"
    /\ phase_i' = 1
    /\ UNCHANGED window_vars
    /\ UNCHANGED <<model_vars, run, first, todo, pending, stack, seen_classes,
                   classes, already_imported, log, block_at, listed, relisted>>

\* One pass of the third loop: the associations of the class, then the lines
\* of subsets() with every import line at most once.
AssociationsBlock ==
    /\ pc = "associations"
    /\ phase_i <= Len(classes)
    /\ \E assoc \in {associations(classes[phase_i])} :
          IF assoc.raised
            THEN /\ out' = out \o assoc.lines
                 /\ pc' = "error"
                 /\ UNCHANGED <<already_imported, log>>
          ELSE \E subs \in {subsets(classes[phase_i])} :
                 \E kept \in {import_once(subs.lines, already_imported)} :
                    /\ out' = out \o assoc.lines \o kept.lines
                    /\ already_imported' = kept.imported
                    /\ log' = log \o subs.log
                    /\ UNCHANGED pc
    /\ phase_i' = phase_i + 1
    /\ UNCHANGED window_vars
    /\ UNCHANGED <<model_vars, run, first, todo, pending, stack, seen_classes,
                   classes, block_at, listed, relisted>>

\* The third loop is over: the generator is exhausted.
CoderReturn ==
    /\ pc = "associations"
    /\ phase_i > Len(classes)
    /\ pc' = "done"
    /\ UNCHANGED window_vars
    /\ UNCHANGED <<model_vars, run, first, todo, pending, stack, seen_classes,
                   classes, out, already_imported, phase_i, log, block_at,
                   listed, relisted>>

\* coder is called once more on the same model, super models and overrides,
\* after it has returned or raised: main's loop collects the lines anew.
RunAgain ==
    /\ run = 1
    /\ pc = "done" \/ (pc = "error" /\ out # <<>>)
    /\ run' = 2
    /\ first' = [out |-> out, pc |-> pc]
    /\ pc' = "coder"
    /\ out' = <<>>
    /\ classes' = <<>>
    /\ phase_i' = 1
    /\ block_at' = <<>>
    /\ listed' = {}
    /\ relisted' = FALSE
    /\ UNCHANGED window_vars
    /\ UNCHANGED <<model_vars, todo, pending, stack, seen_classes,
                   already_imported, log>>

\* ------------------------------------------------------------ MainWindow

\* str.rfind(ch) + 1: the last position of the character in s, or 0.
rfind(s, ch) ==
    LET at == {i \in 1..Len(s) : char(s, i) = ch}
    IN IF at = {} THEN 0 ELSE CHOOSE i \in at : \A j \in at : j <= i

\* str.replace(old, new), for a non-empty old.
RECURSIVE replace(_, _, _)
replace(s, old, new) ==
    IF Len(s) < Len(old) THEN s
    ELSE IF startswith(s, old)
      THEN new \o replace(SubSeq(s, Len(old) + 1, Len(s)), old, new)
    ELSE char(s, 1) \o replace(SubSeq(s, 2, Len(s)), old, new)

\* PurePath.name: the final component of a path in normal form.
path_name(p) == SubSeq(p, rfind(p, "/") + 1, Len(p))

\* PurePath.stem: the name without its last suffix; a leading or a trailing
\* dot starts no suffix.
stem(p) ==
    LET name == path_name(p)
        i == rfind(name, ".")
    IN IF 1 < i /\ i < Len(name) THEN SubSeq(name, 1, i - 1) ELSE name

\* Path.home() of the user who runs the application.
Home == "/home/user"

\* gettext(message) without a translation catalog: the message itself.
gettext(message) == message

\* The handlers of the main window, as bound methods, and the handler of an
\* InAppNotifier, one per notifier object.
FileManagerHandler == "MainWindow._on_file_manager_state_changed"

UndoManagerHandler == "MainWindow._on_undo_manager_state_changed"

ActionEnabledHandler == "MainWindow._on_action_enabled"

ModelingLanguageHandler == "MainWindow._on_modeling_language_selection_changed"

NotifierHandler(notifier) == "InAppNotifier.handle of " \o notifier

\* EventManager.subscribe / unsubscribe: the handlers of an event type are a
\* set; unsubscribing a handler that is not subscribed does nothing.
subscribe(handlers, h) == handlers \cup {h}

unsubscribe(handlers, h) == handlers \ {h}

\* MainWindow.__init__: the fields that the handlers and shutdown use.
MainWindowInit ==
    /\ main_window = [window |-> None, title |-> None, subtitle |-> None,
                      filename |-> None, model_changed |-> FALSE,
                      in_app_notifier |-> None]
    /\ subscribed = subscribe({}, FileManagerHandler)
    /\ observed = [opens |-> 0, shutdowns |-> 0, last_undo |-> <<>>,
                   last_file |-> [type |-> None, filename |-> None]]

set_title_marker_always(mw) ==
    IF mw.window = None THEN mw
    ELSE [mw EXCEPT
            !.title = (IF truthy(mw.filename) THEN stem(mw.filename)
                       ELSE "Gaphor") \o " [" \o gettext("edited") \o "]",
            !.subtitle = IF truthy(mw.filename)
                           THEN replace(mw.filename, Home, "~")
                         ELSE gettext("New model")]

\* set_title(): the title label and the window title get the same text, the
\* subtitle label the path; nothing happens without a window.
set_title(mw) ==
    IF mw.window = None THEN mw
    ELSE [mw EXCEPT
            !.title = (IF truthy(mw.filename) THEN stem(mw.filename)
                       ELSE "Gaphor")
                      \o (IF mw.model_changed
                            THEN " [" \o gettext("edited") \o "]" ELSE ""),
            !.subtitle = IF truthy(mw.filename)
                           THEN replace(mw.filename, Home, "~")
                         ELSE gettext("New model")]

\* The file names that the events of the file manager carry: none, the empty
\* string, a file below the home directory, a file without suffix, and a
\* file whose name ends as the title of an edited model does.
Filenames ==
    {None, "", "/home/user/model.gaphor", "/tmp/notes",
     "/tmp/plan [edited].gaphor"}

\* open(): a new window and a new InAppNotifier from a new builder, the title
\* set, and the four handlers subscribed.
Open ==
    /\ pc = "window"
    /\ observed.opens < MaxOpens
    /\ LET n == ToString(observed.opens + 1)
       IN /\ main_window' = [set_title([main_window EXCEPT !.window = "w" \o n])
                               EXCEPT !.in_app_notifier = "n" \o n]
          /\ subscribed' =
                subscribe(subscribe(subscribe(subscribe(subscribed,
                    UndoManagerHandler), ActionEnabledHandler),
                    ModelingLanguageHandler), NotifierHandler("n" \o n))
    /\ observed' = [observed EXCEPT !.opens = @ + 1]
    /\ UNCHANGED coder_vars

\* shutdown(): the handlers it unsubscribes from the event manager.
shutdown_unsubscribe(handlers, mw) ==
    LET own == unsubscribe(unsubscribe(unsubscribe(unsubscribe(handlers,
                   FileManagerHandler), UndoManagerHandler),
                   ActionEnabledHandler), ModelingLanguageHandler)
    IN IF mw.in_app_notifier # None
         THEN unsubscribe(own, NotifierHandler(mw.in_app_notifier))
       ELSE own

\* shutdown(): the window is destroyed and forgotten, the handlers are
\* unsubscribed, the notifier is forgotten.
Shutdown ==
    /\ pc = "window"
    /\ subscribed' = shutdown_unsubscribe(subscribed, main_window)
    /\ main_window' = [main_window EXCEPT !.window = None,
                                          !.in_app_notifier = None]
    /\ observed' = [observed EXCEPT !.shutdowns = 1]
    /\ UNCHANGED coder_vars

\* _on_file_manager_state_changed(event)
on_file_manager_state_changed(mw, event) ==
    set_title([mw EXCEPT !.model_changed = FALSE,
                         !.filename = IF truthy(event.filename)
                                        THEN event.filename ELSE None])

\* The event manager handles a SessionCreated, ModelLoaded or ModelSaved
\* event: it calls the handler if it is subscribed.
FileManagerEvent ==
    /\ pc = "window"
    /\ \E type \in {"SessionCreated", "ModelLoaded", "ModelSaved"},
          f \in Filenames :
         LET event == [type |-> type, filename |-> f]
         IN /\ main_window' =
                  IF FileManagerHandler \in subscribed
                    THEN on_file_manager_state_changed(main_window, event)
                  ELSE main_window
            /\ observed' = [observed EXCEPT !.last_undo = <<>>,
                                            !.last_file = event]
    /\ UNCHANGED <<coder_vars, subscribed>>

\* _on_undo_manager_state_changed(event), with what can_undo() returns.
on_undo_manager_state_changed(mw, can_undo) ==
    IF mw.model_changed # can_undo
      THEN set_title([mw EXCEPT !.model_changed = can_undo])
    ELSE mw

\* The event manager handles an UndoManagerStateChanged event.
UndoManagerEvent ==
    /\ pc = "window"
    /\ \E can_undo \in BOOLEAN :
         /\ main_window' =
               IF UndoManagerHandler \in subscribed
                 THEN on_undo_manager_state_changed(main_window, can_undo)
               ELSE main_window
         /\ observed' = IF main_window.window # None
                          THEN [observed EXCEPT !.last_undo = <<can_undo>>]
                        ELSE observed
    /\ UNCHANGED <<coder_vars, subscribed>>

\* --------------------------------------------------------- model elements

RootPackage == [profile |-> FALSE, owningPackage |-> None]

PlainClass(name) ==
    [name |-> name, generalization |-> <<>>, ownedAttribute |-> <<>>,
     ownedOperation |-> <<>>, appliedStereotype |-> {}, owningPackage |-> "root"]

PlainProperty(name) ==
    [name |-> name, type |-> None, typeValue |-> None, isDerived |-> FALSE,
     association |-> None, ownedEndClass |-> None, lowerValue |-> None,
     upperValue |-> None, aggregation |-> None, opposite |-> None,
     defaultValue |-> None, slot |-> <<>>, class_ |-> None]

\* No override file was given: `overrides` is None.
NoOverrides == [given |-> FALSE, header |-> None, text |-> <<>>, type |-> <<>>]

SelectClasses == [i \in 1..NumClasses |-> Cid(i)]

\* The classes with a lower index than c: the graph is acyclic, so its classes
\* can be numbered with every base edge leading to a lower number.
Lower(i) == {Cid(j) : j \in 1..(i - 1)}

\* The one property of the graphs order_classes is run on: owned by the class
\* with index i, it is a baseClass end of an association to a metaclass, a
\* baseClass attribute without association, or an association end of another
\* name.
OrderProperties(i) ==
    {[PlainProperty("baseClass") EXCEPT
        !.association = "Association", !.ownedEndClass = m, !.class_ = Cid(i)]
       : m \in Lower(i)}
    \cup {[PlainProperty("baseClass") EXCEPT !.class_ = Cid(i)]}
    \cup {[PlainProperty("metaclass") EXCEPT
             !.association = "Association", !.ownedEndClass = m, !.class_ = Cid(i)]
            : m \in Lower(i)}

\* The generalizations of the classes 1..n, one sequence of generals per class.
RECURSIVE Generalizations(_)
Generalizations(n) ==
    IF n = 0 THEN {<<>>}
    ELSE {Append(g, a) : g \in Generalizations(n - 1),
                         a \in Arrangements(Lower(n))}

\* The state of a run before its first step.
Start(at) ==
    /\ loaded = prop
    /\ pc = at
    /\ todo = IF at = "resolve" THEN model.Property ELSE <<>>
    /\ pending = <<>>
    /\ stack = <<>>
    /\ seen_classes = {}
    /\ classes = <<>>
    /\ out = <<>>
    /\ already_imported = {}
    /\ phase_i = 1
    /\ log = <<>>
    /\ block_at = <<>>
    /\ listed = {}
    /\ relisted = FALSE
    /\ run = 1
    /\ first = [out |-> <<>>, pc |-> at]
    /\ MainWindowInit

\* order_classes on its own, on every acyclic graph of NumClasses classes.
InitOrder ==
    /\ package = [p \in {"root"} |-> RootPackage]
    /\ \E gen \in Generalizations(NumClasses) :
         /\ \/ /\ prop = <<>>
               /\ cls = [c \in Classes |->
                          LET i == CHOOSE j \in 1..NumClasses : Cid(j) = c
                          IN [PlainClass("C" \o ToString(i)) EXCEPT
                                !.generalization = gen[i]]]
            \/ \E o \in 1..NumClasses : \E a \in OrderProperties(o) :
                 /\ prop = [p \in {"p1"} |-> a]
                 /\ cls = [c \in Classes |->
                            LET i == CHOOSE j \in 1..NumClasses : Cid(j) = c
                            IN [PlainClass("C" \o ToString(i)) EXCEPT
                                  !.generalization = gen[i],
                                  !.ownedAttribute =
                                     IF i = o THEN <<"p1">> ELSE <<>>]]
    /\ model = [Class |-> SelectClasses,
                Property |-> IF DOMAIN prop = {} THEN <<>> ELSE <<"p1">>]
    /\ super_models = <<>>
    /\ overrides = NoOverrides
    /\ Start("order")

NextOrder == OrderFeed \/ OrderNext \/ OrderDescend \/ OrderYield \/ OrderReturn

SpecOrder == InitOrder /\ [][NextOrder]_vars

\* One call of order_classes on any graph of NumClasses classes, cyclic or
\* not: every class has any of the classes but one as its generals, itself
\* included, and the input is any arrangement of some of the classes.
InitCycle ==
    /\ package = [p \in {"root"} |-> RootPackage]
    /\ prop = <<>>
    /\ cls \in [Classes -> {[PlainClass("C") EXCEPT !.generalization = g] :
                              g \in {a \in Arrangements(Classes) :
                                        Len(a) < NumClasses}}]
    /\ model = [Class |-> SelectClasses, Property |-> <<>>]
    /\ super_models = <<>>
    /\ overrides = NoOverrides
    /\ loaded = prop
    /\ pc = "order"
    /\ todo = <<>>
    /\ pending \in Arrangements(Classes) \ {<<>>}
    /\ stack = <<>>
    /\ seen_classes = {}
    /\ classes = <<>>
    /\ out = <<>>
    /\ already_imported = {}
    /\ phase_i = 1
    /\ log = <<>>
    /\ block_at = <<>>
    /\ listed = {}
    /\ relisted = FALSE
    /\ run = 1
    /\ first = [out |-> <<>>, pc |-> "order"]
    /\ MainWindowInit

NextCycle ==
    OrderNext \/ OrderDescend \/ OrderOverflow \/ OrderYield \/ OrderReturn

\* The interpreter runs the call on until it returns or raises.
SpecCycle == InitCycle /\ [][NextCycle]_vars /\ WF_vars(NextCycle)

\* An override file with entries for a class, an attribute and an operation.
SomeOverrides ==
    [given |-> TRUE,
     header |-> "from gaphor.core.modeling import Element",
     text |-> [k \in {"Element", "Owner.x", "Owner.op"} |->
                 IF k = "Element" THEN "Element = _Element"
                 ELSE IF k = "Owner.x"
                   THEN "Owner.x = derived(\"x\", str, 0, 1, lambda obj: [obj.y])"
                 ELSE "Owner.op = operation(lambda obj: obj.x)"],
     type |-> [k \in {"Element", "Owner.x", "Owner.op"} |->
                 IF k = "Owner.x" THEN "derived[str]" ELSE "operation"]]

\* The raw type strings of a property: no string, every alias, the name of a
\* class of the model, and a name of nothing.
TypeValues ==
    {None, "String", "str", "object", "Integer", "int", "Boolean", "bool",
     "UnlimitedNatural", "Base", "Note", "Missing"}

\* A model whose class Owner has an attribute p1 of any type, raw type
\* string, derivation, association and stereotype slot, beside the classes
\* the attribute may refer to: Base (a base of Owner with an attribute x), Text
\* (a simple type), Note (a simple type by generalization), ColorKind (an
\* enumeration) and a class with or without a name.
InitMembers ==
    /\ package = [p \in {"root"} |-> RootPackage]
    /\ \E last \in {"Misc", None} :
         cls = [c \in {"c1", "c2", "c3", "c4", "c5", "c6"} |->
                 CASE c = "c1" -> [PlainClass("Owner") EXCEPT
                                     !.generalization = <<"c2">>,
                                     !.ownedAttribute = <<"p1", "p2">>,
                                     !.ownedOperation = <<"op", "run">>]
                   [] c = "c2" -> [PlainClass("Base") EXCEPT
                                     !.ownedAttribute = <<"p3">>]
                   [] c = "c3" -> [PlainClass("Text") EXCEPT
                                     !.appliedStereotype = {"SimpleAttribute"}]
                   [] c = "c4" -> [PlainClass("Note") EXCEPT
                                     !.generalization = <<"c3">>]
                   [] c = "c5" -> [PlainClass("ColorKind") EXCEPT
                                     !.ownedAttribute = <<"p4", "p5">>]
                   [] c = "c6" -> PlainClass(last)]
    /\ \E name \in {"x", None}, type \in {None, "c2", "c3", "c4", "c5"},
          typeValue \in TypeValues, isDerived \in BOOLEAN,
          association \in {None, "Association", "Extension"},
          slot \in {<<>>, <<[definingFeature |-> "redefines", value |-> "x"]>>} :
         prop = [p \in {"p1", "p2", "p3", "p4", "p5"} |->
                  CASE p = "p1" -> [PlainProperty(name) EXCEPT
                                      !.type = type, !.typeValue = typeValue,
                                      !.isDerived = isDerived,
                                      !.association = association,
                                      !.slot = slot, !.class_ = "c1"]
                    [] p = "p2" -> [PlainProperty("label") EXCEPT
                                      !.typeValue = "String", !.class_ = "c1"]
                    [] p = "p3" -> [PlainProperty("x") EXCEPT
                                      !.typeValue = "Boolean",
                                      !.defaultValue = "true", !.class_ = "c2"]
                    [] p = "p4" -> [PlainProperty("red") EXCEPT !.class_ = "c5"]
                    [] p = "p5" -> [PlainProperty("blue") EXCEPT !.class_ = "c5"]]
    /\ model = [Class |-> <<"c1", "c2", "c3", "c4", "c5", "c6">>,
                Property |-> <<"p1", "p2", "p3", "p4", "p5">>]
    /\ super_models = <<>>
    /\ overrides \in {NoOverrides, SomeOverrides}
    /\ Start("resolve")

\* The classes that a class reaches over bases() in at most n steps.
RECURSIVE BasesWithin(_, _)
BasesWithin(c, n) ==
    IF n = 0 THEN {}
    ELSE Range(bases(c)) \cup UNION {BasesWithin(b, n - 1) : b \in Range(bases(c))}

\* The generalization graph is acyclic by construction of the modeling tool.
Acyclic ==
    \A c \in Range(model.Class) : c \notin BasesWithin(c, Len(model.Class))

\* The super model of the runs: gaphor.UML with the class Element, its base
\* Base that owns the derived union `members`, a class Thing of a profile and
\* an enumeration.
SuperClasses ==
    [c \in {"s1", "s2", "s3", "s4"} |->
       CASE c = "s1" -> [PlainClass("Element") EXCEPT !.generalization = <<"s2">>]
         [] c = "s2" -> [PlainClass("Base") EXCEPT !.ownedAttribute = <<"sp1">>]
         [] c = "s3" -> [PlainClass("Thing") EXCEPT !.owningPackage = "nested"]
         [] c = "s4" -> PlainClass("ThingKind")]

SuperProperties ==
    [p \in {"sp1"} |-> [PlainProperty("members") EXCEPT
                          !.type = "s1", !.isDerived = TRUE, !.class_ = "s2",
                          !.association = "Association"]]

SuperModels ==
    <<[pkg |-> "gaphor.UML",
       factory |-> [Class |-> <<"s3", "s4", "s1", "s2">>, Property |-> <<"sp1">>]]>>

Packages ==
    [p \in {"root", "profile", "nested"} |->
       CASE p = "root" -> RootPackage
         [] p = "profile" -> [profile |-> TRUE, owningPackage |-> "root"]
         [] p = "nested" -> [profile |-> FALSE, owningPackage |-> "profile"]]

\* The kinds of a class: two plain names, an enumeration, a tilde type, a
\* simple type, and a class of a package inside a profile.
ClassKinds ==
    {PlainClass(n) : n \in {"Element", "Thing", "ThingKind", "~Thing"}}
    \cup {[PlainClass("Text") EXCEPT !.appliedStereotype = {"SimpleAttribute"}],
          [PlainClass("Element") EXCEPT !.owningPackage = "nested"]}

ModelClasses == {Cid(i) : i \in 1..NumModelClasses}

\* The one property of these models: the baseClass end of an extension of a
\* metaclass m, or an association end that subsets `members` and `missing`.
ClassProperties(o) ==
    {[PlainProperty("baseClass") EXCEPT
        !.type = m, !.association = "Extension", !.ownedEndClass = m,
        !.class_ = o] : m \in ModelClasses \ {o}}
    \cup {[PlainProperty("owned") EXCEPT
             !.type = o, !.association = "Association", !.class_ = o,
             !.slot = <<[definingFeature |-> "subsets",
                         value |-> "members, missing"]>>]}

\* Models of NumModelClasses classes: the first of any kind, the others plain
\* classes named Element or Thing; every class with at most one general; at
\* most one property; with or without overrides; beside the super model.
InitClasses ==
    /\ package = Packages
    /\ \E kind \in ClassKinds,
          names \in [ModelClasses \ {"c1"} -> {"Element", "Thing"}],
          gen \in [ModelClasses -> {<<>>} \cup {<<b>> : b \in ModelClasses}],
          owned \in {<<>>} \cup UNION {{<<o, a>> : a \in ClassProperties(o)}
                                         : o \in ModelClasses} :
         /\ prop = [p \in (IF owned = <<>> THEN {} ELSE {"p1"}) \cup {"sp1"} |->
                     IF p = "p1" THEN owned[2] ELSE SuperProperties[p]]
         /\ cls = [c \in ModelClasses \cup DOMAIN SuperClasses |->
                    IF c \in DOMAIN SuperClasses THEN SuperClasses[c]
                    ELSE [(IF c = "c1" THEN kind ELSE PlainClass(names[c]))
                            EXCEPT !.generalization = gen[c],
                                   !.ownedAttribute =
                                      IF owned # <<>> /\ owned[1] = c
                                        THEN <<"p1">> ELSE <<>>]]
         /\ model = [Class |-> [i \in 1..NumModelClasses |-> Cid(i)],
                     Property |-> IF owned = <<>> THEN <<>> ELSE <<"p1">>]
    /\ Acyclic
    /\ super_models = SuperModels
    /\ overrides \in {NoOverrides, SomeOverrides}
    /\ Start("resolve")

\* The kinds of an owned attribute of Owner with the given name: association
\* ends to Part (plain; composite with bounds and a named opposite end; a
\* redefinition; a derived union; a derived redefinition; without a name;
\* with an override, named x; subsetting four names; the end of an
\* extension), a derived attribute without type, an int attribute, and an
\* attribute without any type.
AttributeKinds(name) ==
    LET end == [PlainProperty(name) EXCEPT
                  !.type = "c3", !.association = "Association", !.class_ = "c1"]
    IN {end,
        [end EXCEPT !.lowerValue = "1", !.upperValue = "1",
                    !.aggregation = "composite", !.opposite = "q1"],
        [end EXCEPT !.slot = <<[definingFeature |-> "redefines",
                                value |-> "Base.members"]>>],
        [end EXCEPT !.isDerived = TRUE],
        [end EXCEPT !.isDerived = TRUE,
                    !.slot = <<[definingFeature |-> "redefines",
                                value |-> "Base.items"]>>],
        [end EXCEPT !.name = None],
        [end EXCEPT !.name = "x"],
        [end EXCEPT !.slot = <<[definingFeature |-> "subsets",
                                value |-> "members, items,missing, elements"]>>],
        [end EXCEPT !.association = "Extension"],
        [PlainProperty(name) EXCEPT !.isDerived = TRUE, !.class_ = "c1"],
        [PlainProperty(name) EXCEPT !.typeValue = "Integer", !.class_ = "c1"],
        [PlainProperty(name) EXCEPT !.class_ = "c1"]}

\* The names of the attributes of Owner, by position: not in sorted order.
AttributeNames == <<"b", "a", "d", "c", "e">>

Pid(i) == "p" \o ToString(i)

\* The attributes of Owner: at most NumAttributes, each of any kind.
RECURSIVE OwnedAttributes(_)
OwnedAttributes(n) ==
    IF n = 0 THEN {<<>>}
    ELSE OwnedAttributes(n - 1)
         \cup {Append(t, a) : t \in {u \in OwnedAttributes(n - 1) : Len(u) = n - 1},
                              a \in AttributeKinds(AttributeNames[n])}

\* What surrounds Owner: its base Base with the derived union `members` and
\* the association end `items`; the class Part with its end `owner` and the
\* unnamed end of an extension; two ends that their associations own, one
\* without a name; the derived union `elements` of the super model; and the
\* attributes of the class Loose, a derived attribute without type and the
\* end of an extension.
AttributeContext ==
    [p \in {"b1", "b2", "q1", "q2", "q3", "q4", "r1", "d1", "d2"} |->
       CASE p = "b1" -> [PlainProperty("members") EXCEPT
                           !.type = "c3", !.isDerived = TRUE,
                           !.association = "Association", !.class_ = "c2"]
         [] p = "b2" -> [PlainProperty("items") EXCEPT
                           !.type = "c3", !.association = "Association",
                           !.class_ = "c2"]
         [] p = "q1" -> [PlainProperty("owner") EXCEPT
                           !.type = "c1", !.association = "Association",
                           !.class_ = "c3"]
         [] p = "q2" -> [PlainProperty(None) EXCEPT
                           !.type = "c1", !.association = "Association"]
         [] p = "q3" -> [PlainProperty("loose") EXCEPT
                           !.type = "c1", !.association = "Association"]
         [] p = "q4" -> [PlainProperty(None) EXCEPT
                           !.type = "c1", !.association = "Extension",
                           !.class_ = "c3"]
         [] p = "r1" -> [PlainProperty("elements") EXCEPT
                           !.type = "t2", !.isDerived = TRUE,
                           !.association = "Association", !.class_ = "t2"]
         [] p = "d1" -> [PlainProperty("size") EXCEPT
                           !.isDerived = TRUE, !.class_ = "c4"]
         [] p = "d2" -> [PlainProperty("ext") EXCEPT
                           !.type = "c3", !.association = "Extension",
                           !.class_ = "c4"]]

\* The classes of these models (Loose has no member that is written), and
\* the classes Base and Root of a super
\* model, Root being the base of Base and the owner of `elements`.
AttributeClasses(owned) ==
    [c \in {"c1", "c2", "c3", "c4", "t1", "t2"} |->
       CASE c = "c1" -> [PlainClass("Owner") EXCEPT
                           !.generalization = <<"c2">>,
                           !.ownedAttribute = owned,
                           !.ownedOperation = <<"run", "op">>]
         [] c = "c2" -> [PlainClass("Base") EXCEPT
                           !.ownedAttribute = <<"b1", "b2">>]
         [] c = "c3" -> [PlainClass("Part") EXCEPT
                           !.ownedAttribute = <<"q1", "q4">>]
         [] c = "c4" -> [PlainClass("Loose") EXCEPT
                           !.ownedAttribute = <<"d1", "d2">>,
                           !.ownedOperation = <<"run">>]
         [] c = "t1" -> [PlainClass("Base") EXCEPT !.generalization = <<"t2">>]
         [] c = "t2" -> [PlainClass("Root") EXCEPT !.ownedAttribute = <<"r1">>]]

AttributeSuperModels ==
    <<[pkg |-> "gaphor.UML",
       factory |-> [Class |-> <<"t1", "t2">>, Property |-> <<"r1">>]]>>

\* Models whose class Owner has up to NumAttributes attributes of any kinds
\* in any order, with an override file and a super model.
InitAttributes ==
    /\ package = [p \in {"root"} |-> RootPackage]
    /\ \E as \in OwnedAttributes(NumAttributes) :
         LET ids == [i \in 1..Len(as) |-> Pid(i)]
         IN /\ prop = [p \in Range(ids) \cup DOMAIN AttributeContext |->
                         IF p \in DOMAIN AttributeContext THEN AttributeContext[p]
                         ELSE as[CHOOSE i \in 1..Len(as) : Pid(i) = p]]
            /\ cls = AttributeClasses(ids)
            /\ model = [Class |-> <<"c4", "c1", "c2", "c3">>,
                        Property |-> ids \o <<"b1", "b2", "q1", "q2", "q3", "q4",
                                               "d1", "d2">>]
    /\ super_models = AttributeSuperModels
    /\ overrides = SomeOverrides
    /\ Start("resolve")

\* Models whose class Owner has one association end or derived union with
\* every lower bound, upper bound, aggregation and opposite end.
InitBounds ==
    /\ package = [p \in {"root"} |-> RootPackage]
    /\ \E lowerValue \in {None, "0", "1"}, upperValue \in {None, "*", "1", "2"},
          aggregation \in {None, "composite", "shared"},
          opp \in {None, "q1", "q2", "q3", "q4"}, isDerived \in BOOLEAN :
         prop = [p \in {"p1"} \cup DOMAIN AttributeContext |->
                   IF p \in DOMAIN AttributeContext THEN AttributeContext[p]
                   ELSE [PlainProperty("part") EXCEPT
                           !.type = "c3", !.association = "Association",
                           !.class_ = "c1", !.lowerValue = lowerValue,
                           !.upperValue = upperValue, !.isDerived = isDerived,
                           !.aggregation = aggregation, !.opposite = opp]]
    /\ cls = AttributeClasses(<<"p1">>)
    /\ model = [Class |-> <<"c4", "c1", "c2", "c3">>,
                Property |-> <<"p1", "b1", "b2", "q1", "q2", "q3", "q4",
                               "d1", "d2">>]
    /\ super_models = <<>>
    /\ overrides \in {NoOverrides, SomeOverrides}
    /\ Start("resolve")

Init == InitMembers \/ InitClasses

Next ==
    \/ ResolveProperty
    \/ ResolveReturn
    \/ CoderStart
    \/ OrderNext
    \/ OrderDescend
    \/ OrderYield
    \/ OrderReturn
    \/ EmitHeader
    \/ ClassBlock
    \/ ClassBlocksDone
    \/ OperationsBlock
    \/ OperationsDone
    \/ AssociationsBlock
    \/ CoderReturn

Spec == Init /\ [][Next]_vars

\* Two calls of coder, one after the other, on one loaded model.
NextTwice == Next \/ RunAgain

SpecTwice == (Init \/ InitBounds) /\ [][NextTwice]_vars

\* The runs on the models of Owner's attributes.
SpecAttributes == (InitAttributes \/ InitBounds) /\ [][Next]_vars

\* The main window after its construction, with no model being generated.
InitWindow ==
    /\ package = [p \in {"root"} |-> RootPackage]
    /\ prop = <<>>
    /\ cls = <<>>
    /\ model = [Class |-> <<>>, Property |-> <<>>]
    /\ super_models = <<>>
    /\ overrides = NoOverrides
    /\ Start("window")

NextWindow == Open \/ Shutdown \/ FileManagerEvent \/ UndoManagerEvent

\* Any sequence of calls of open and shutdown and of events after __init__.
SpecWindow == InitWindow /\ [][NextWindow]_vars

\* ------------------------------------------------------------- properties

\* The bases of a class: the targets of its generalizations and the
\* metaclasses of its owned baseClass attributes that have an association.
BasesOf(c) ==
    Range(cls[c].generalization)
    \cup {prop[a].ownedEndClass :
            a \in {x \in Range(cls[c].ownedAttribute) :
                     prop[x].name = "baseClass" /\ prop[x].association # None}}

RECURSIVE AncestorsWithin(_, _)
AncestorsWithin(c, n) ==
    IF n = 0 THEN {}
    ELSE BasesOf(c) \cup UNION {AncestorsWithin(b, n - 1) : b \in BasesOf(c)}

AncestorsOf(c) == AncestorsWithin(c, Cardinality(DOMAIN cls))

\* C1: in the sequence order_classes yields, every class comes strictly after
\* each of its bases, and so after every ancestor.
C1_BasesBeforeDerived ==
    \A j \in 1..Len(classes) :
       \A b \in AncestorsOf(classes[j]) :
          \E i \in 1..(j - 1) : classes[i] = b

\* order_classes has returned a class that has a generalization and a
\* metaclass, one of them with a base of its own.
C1_Witness ==
    /\ pc = "header"
    /\ \E j \in 1..Len(classes) :
          /\ cls[classes[j]].generalization # <<>>
          /\ BasesOf(classes[j]) # Range(cls[classes[j]].generalization)
          /\ \E b \in BasesOf(classes[j]) : BasesOf(b) # {}

\* C2: no class is yielded twice by order_classes.
C2_EachClassOnce ==
    \A i, j \in 1..Len(classes) : classes[i] = classes[j] => i = j

\* order_classes has returned after its input named a class twice and named
\* a class that is also a base of another input class, in a graph where a
\* class is reached over two paths.
C2_Witness ==
    /\ pc = "header"
    /\ relisted
    /\ \E x, y \in listed : x \in BasesOf(y)
    /\ \E c \in Range(classes) :
          \E b1, b2 \in BasesOf(c) : b1 # b2 /\ b1 \in AncestorsOf(b2)

\* The properties resolve_attribute_type_values has visited.
Visited == Range(model.Property) \ Range(todo)

StrAliases == {"String", "str", "object"}

IntAliases == {"Integer", "int", "Boolean", "bool", "UnlimitedNatural"}

\* C3, as claimed: a visited property whose raw type string was a str alias
\* has the typeValue "str", one whose raw type string was an int alias "int".
C3_AliasesCanonical ==
    \A p \in Visited :
       /\ loaded[p].typeValue \in StrAliases => prop[p].typeValue = "str"
       /\ loaded[p].typeValue \in IntAliases => prop[p].typeValue = "int"

RefersToSimpleType(a) == a.type # None /\ is_simple_type(a.type)

\* C3, amended: an int alias becomes "int" unless the property refers to a
\* simple type, and then it becomes "str"; a str alias always becomes "str".
C3_AliasesCanonicalUnlessSimple ==
    \A p \in Visited :
       /\ loaded[p].typeValue \in StrAliases => prop[p].typeValue = "str"
       /\ loaded[p].typeValue \in IntAliases =>
            prop[p].typeValue =
               IF RefersToSimpleType(loaded[p]) THEN "str" ELSE "int"

\* The resolver has returned with one int alias resolved to "int" and
\* another, of a property that refers to a simple type, resolved to "str".
C3_Witness ==
    /\ pc = "coder"
    /\ {"p1", "p3"} \subseteq DOMAIN loaded
    /\ loaded["p1"].typeValue = "UnlimitedNatural"
    /\ loaded["p1"].type = "c4"
    /\ prop["p1"].typeValue = "str"
    /\ loaded["p3"].typeValue = "Boolean"
    /\ prop["p3"].typeValue = "int"

\* The class a property refers to once its raw type string is looked up.
TypeLookedUp(a) ==
    IF is_alias(a.typeValue) THEN a.type
    ELSE IF class_named(a.typeValue) # None THEN class_named(a.typeValue)
    ELSE a.type

OfSimpleType(p) ==
    TypeLookedUp(loaded[p]) # None /\ is_simple_type(TypeLookedUp(loaded[p]))

\* The lines of the block of classes[i], while or after the class blocks are
\* written.
BlockLines(i) ==
    SubSeq(out, block_at[i],
           IF i < Len(block_at) THEN block_at[i + 1] - 1 ELSE Len(out))

InOut(line) == \E k \in 1..Len(out) : out[k] = line

FullName(c, p) == fmt(cls[c].name) \o "." \o fmt(prop[p].name)

\* A relation_one/relation_many property line of attribute p.
RelationLine(line, p) ==
    startswith(line, "    " \o fmt(prop[p].name) \o ": relation_")

\* The primitive str property line of attribute p, with or without default.
StrLine(line, p) ==
    startswith(line, "    " \o fmt(prop[p].name)
                     \o ": _attribute[str] = _attribute(\""
                     \o fmt(prop[p].name) \o "\", str")

\* An association, derived union or redefinition statement of attribute p of c.
AssociationLine(line, c, p) ==
    \/ startswith(line, FullName(c, p) \o " = association(")
    \/ startswith(line, FullName(c, p) \o " = derivedunion(")
    \/ startswith(line, FullName(c, p) \o " = redefine(")

\* The classes whose blocks have been written, as indices of `classes`.
Begun == {i \in 1..Len(classes) : i <= Len(block_at)}

\* The block of classes[i] is a declaration with properties.
Declared(i) ==
    /\ ~has_override(cls[classes[i]].name)
    /\ ~in_super_model(cls[classes[i]].name, super_models).found

\* The attributes p of the classes whose blocks have been written, as <<i, p>>.
Written ==
    {<<i, p>> \in Begun \X DOMAIN prop :
        p \in Range(cls[classes[i]].ownedAttribute)}

\* C4, as claimed: an attribute of a simple type has its str property line in
\* the finished output, no relation line and no association statement.
C4_SimpleTypeIsStr ==
    \A w \in Written :
       OfSimpleType(w[2]) =>
         /\ \A k \in 1..Len(out) :
               /\ ~RelationLine(out[k], w[2])
               /\ ~AssociationLine(out[k], classes[w[1]], w[2])
         /\ pc = "done" => \E k \in 1..Len(out) : StrLine(out[k], w[2])

\* C4, amended: no relation line and no association statement; the str
\* property line is in the block of the attribute's class when that block is
\* a declaration and the attribute is no extension end, has no override and
\* is not derived.
C4_SimpleTypeNeverRelation ==
    \A w \in Written :
       OfSimpleType(w[2]) =>
         /\ \A k \in 1..Len(out) :
               /\ ~RelationLine(out[k], w[2])
               /\ ~AssociationLine(out[k], classes[w[1]], w[2])
         /\ (/\ pc = "done"
             /\ Declared(w[1])
             /\ ~is_extension_end(w[2])
             /\ ~has_override(FullName(classes[w[1]], w[2]))
             /\ ~prop[w[2]].isDerived)
            => \E k \in 1..Len(BlockLines(w[1])) :
                  StrLine(BlockLines(w[1])[k], w[2])

\* A finished run whose attribute Owner.x is an association end to Note, a
\* simple type by generalization, and is written as a str attribute.
C4_Witness ==
    /\ pc = "done"
    /\ "p1" \in DOMAIN loaded
    /\ loaded["p1"].type = "c4"
    /\ loaded["p1"].typeValue = None
    /\ loaded["p1"].association = "Association"
    /\ ~loaded["p1"].isDerived
    /\ cls["c4"].generalization = <<"c3">>
    /\ \E k \in 1..Len(out) : StrLine(out[k], "p1")

\* resolve_attribute_type_values has raised, at the property visited last.
ResolveFailed == pc = "error" /\ out = <<>> /\ classes = <<>>

LastVisited == model.Property[Len(model.Property) - Len(todo)]

\* C5, as claimed: the resolver fails at every property that it leaves with
\* neither a class reference nor the typeValue "str" or "int".
C5_FailsWithoutType ==
    \A p \in Visited :
       (prop[p].type = None /\ prop[p].typeValue \notin {"str", "int"})
       => (ResolveFailed /\ p = LastVisited)

\* C5, amended: the resolver fails at a property exactly when it leaves it
\* with no class reference and a type string that is set and is neither
\* "str" nor "int"; a property with no type and no type string passes.
C5_FailsOnUnknownTypeString ==
    \A p \in Visited :
       (prop[p].type = None /\ prop[p].typeValue \notin {"str", "int", None})
       <=> (ResolveFailed /\ p = LastVisited)

\* The resolver has failed at a property whose type string names nothing,
\* after a property without type and type string would have passed.
C5_Witness ==
    /\ ResolveFailed
    /\ prop[LastVisited].typeValue = "Missing"
    /\ prop[LastVisited].type = None

\* A default property line of the member named n in a class block.
PropertyLine(line, n) ==
    \/ startswith(line, "    " \o fmt(n) \o ": _attribute[")
    \/ startswith(line, "    " \o fmt(n) \o " = _enumeration(")
    \/ startswith(line, "    " \o fmt(n) \o ": relation_")

\* The overridden members of the classes whose blocks have been written: the
\* attributes as <<i, p>> and the operations as <<i, o>>.
OverriddenAttributes ==
    {w \in Written : has_override(FullName(classes[w[1]], w[2]))}

OverriddenOperations ==
    {w \in Begun \X {"op", "run"} :
        /\ w[2] \in Range(cls[classes[w[1]]].ownedOperation)
        /\ has_override(fmt(cls[classes[w[1]]].name) \o "." \o w[2])}

\* C6: a member ClassName.memberName with an override has no default property
\* line in the block of its class and no association, derived union or
\* redefinition statement, and the finished output has the override text.
C6_OverrideReplacesMember ==
    /\ \A w \in OverriddenAttributes :
          /\ \A k \in 1..Len(BlockLines(w[1])) :
                ~PropertyLine(BlockLines(w[1])[k], prop[w[2]].name)
          /\ \A k \in 1..Len(out) :
                ~AssociationLine(out[k], classes[w[1]], w[2])
          /\ pc = "done" => InOut(get_override(FullName(classes[w[1]], w[2])))
    /\ \A w \in OverriddenOperations :
          /\ \A k \in 1..Len(BlockLines(w[1])) :
                ~PropertyLine(BlockLines(w[1])[k], w[2])
          /\ pc = "done" =>
                InOut(get_override(fmt(cls[classes[w[1]]].name) \o "." \o w[2]))

\* A finished run with overrides of an operation and of an attribute that
\* has no type to associate, and so would be passed over without override.
C6_Witness ==
    /\ pc = "done"
    /\ OverriddenOperations # {}
    /\ \E w \in OverriddenAttributes :
          /\ prop[w[2]].type = None
          /\ prop[w[2]].typeValue = "int"
          /\ InOut("    x: derived[str]")

\* C7: the block of a class whose bare name has an override is the override
\* text and nothing else: no header, no property line, no import line.
C7_ClassOverrideOnly ==
    \A i \in Begun :
       has_override(cls[classes[i]].name) =>
          BlockLines(i) = <<get_override(cls[classes[i]].name)>>

\* The block of an overridden class is written, the class has an attribute
\* and its name is also the name of a class of the super model.
C7_Witness ==
    \E i \in Begun :
       /\ has_override(cls[classes[i]].name)
       /\ in_super_model(cls[classes[i]].name, super_models).found
       /\ cls[classes[i]].ownedAttribute # <<>>
       /\ cls[classes[i]].generalization # <<>>

\* C8: a class without override whose name is found in a super model is
\* written as the one line `from <pkg> import <Name>`, and no `from ... import`
\* line is in the output of a run twice.
C8_ImportedOnce ==
    /\ \A i \in Begun :
          (/\ ~has_override(cls[classes[i]].name)
           /\ in_super_model(cls[classes[i]].name, super_models).found)
          => BlockLines(i) = <<"from gaphor.UML import "
                                \o fmt(cls[classes[i]].name)>>
    /\ \A j, k \in 1..Len(out) :
          (startswith(out[j], "from ") /\ out[j] = out[k]) => j = k

\* C9: coder writes no class block for an enumeration, a simple type, a class
\* of a profile or a tilde type.
C9_ExcludedClassesNotWritten ==
    \A i \in Begun : generated(classes[i])

\* C10, as claimed: the declaration of a class without generalizations has an
\* empty list of base classes.
C10_NoGeneralizationNoBases ==
    \A i \in Begun :
       (Declared(i) /\ cls[classes[i]].generalization = <<>>)
       => BlockLines(i)[1] = "class " \o fmt(cls[classes[i]].name) \o "():"

\* C10, amended: the list is empty when the class has no generalization and
\* no owned attribute named baseClass that has an association.
C10_NoBasesAtAll ==
    \A i \in Begun :
       (Declared(i) /\ BasesOf(classes[i]) = {})
       => BlockLines(i)[1] = "class " \o fmt(cls[classes[i]].name) \o "():"

\* Two declarations are written: one of a class without any base, and one of
\* a class whose only base is the metaclass of its baseClass attribute.
C10_Witness ==
    \E i, j \in Begun :
       /\ Declared(i) /\ BasesOf(classes[i]) = {}
       /\ BlockLines(i)[1] = "class Thing():"
       /\ Declared(j) /\ cls[classes[j]].generalization = <<>>
       /\ BasesOf(classes[j]) # {}

\* The lines that the step adds to the output.
Added == SubSeq(out', Len(out) + 1, Len(out'))

\* A redefinition statement of an attribute of class c.
RedefinitionLine(line, c) ==
    \E p \in Range(cls[c].ownedAttribute) :
       startswith(line, FullName(c, p) \o " = redefine(")

\* An association or derived union statement of an attribute of class c, or
\* the override text of one.
PlainAssociationLine(line, c) ==
    \E p \in Range(cls[c].ownedAttribute) :
       \/ startswith(line, FullName(c, p) \o " = association(")
       \/ startswith(line, FullName(c, p) \o " = derivedunion(")
       \/ has_override(FullName(c, p)) /\ line = get_override(FullName(c, p))

\* The attributes of c that redefine: class-typed, no extension end, with a
\* redefines slot and without override.
Redefining(c) ==
    {p \in Range(cls[c].ownedAttribute) :
        /\ prop[p].type # None
        /\ ~is_simple_type(prop[p].type) /\ ~is_enumeration(prop[p].type)
        /\ ~is_extension_end(p)
        /\ ~has_override(FullName(c, p))
        /\ \E i \in 1..Len(prop[p].slot) :
              prop[p].slot[i].definingFeature = "redefines"}

\* C11: among the lines that the association phase adds for one class, every
\* redefinition statement comes after every association statement, derived
\* union statement and override line of that class; and when the class is
\* done without a raise each redefining attribute has its statement.
C11_RedefinitionsLast ==
    [][(pc = "associations" /\ phase_i <= Len(classes)) =>
         /\ \A j, k \in 1..Len(Added) :
               (/\ RedefinitionLine(Added[j], classes[phase_i])
                /\ PlainAssociationLine(Added[k], classes[phase_i])) => k < j
         /\ pc' # "error" =>
               \A p \in Redefining(classes[phase_i]) :
                  \E j \in 1..Len(Added) :
                     startswith(Added[j],
                                FullName(classes[phase_i], p) \o " = redefine(")]_vars

\* A finished run in which Owner's first attribute redefines, a later one is
\* an association end and another later one has an override, and the
\* redefinition statement is the last of the three lines.
C11_Witness ==
    /\ pc = "done"
    /\ {"p1", "p2", "p3"} \subseteq DOMAIN prop
    /\ "p1" \in Redefining("c1")
    /\ \E i, j, k \in 1..Len(out) :
          /\ i < j /\ j < k
          /\ out[i] = "Owner.a = association(\"a\", Part)"
          /\ out[j] = get_override("Owner.x")
          /\ out[k] = "Owner.b = redefine(Owner, \"b\", Part, Base.members)"

\* The override text of an operation of class c.
OperationLine(line, c) ==
    \E o \in Range(cls[c].ownedOperation) :
       /\ has_override(fmt(cls[c].name) \o "." \o fmt(o))
       /\ line = get_override(fmt(cls[c].name) \o "." \o fmt(o))

\* An association, derived union or redefinition statement of class c, or the
\* override text of one of its attributes.
StatementLine(line, c) ==
    PlainAssociationLine(line, c) \/ RedefinitionLine(line, c)

\* A line of the subsets pass for class c: an import, or the registration of
\* an attribute of c with a derived union.
SubsetLine(line, c) ==
    \/ startswith(line, "from ")
    \/ \E p \in Range(cls[c].ownedAttribute) :
          endswith(line, ".add(" \o FullName(c, p)
                         \o ")  # type: ignore[attr-defined]")

\* A line of the class block of c.
ClassBlockLine(line, c) ==
    IF has_override(cls[c].name) THEN line = get_override(cls[c].name)
    ELSE \/ line = ""
         \/ startswith(line, "from ")
         \/ startswith(line, "class " \o fmt(cls[c].name) \o "(")
         \/ startswith(line, "    ")

\* The group of the line out[j] of a finished run: 1 the header block, 2
\* the class blocks, 3 the operation overrides, 4 the association, derived
\* union and redefinition statements, 5 the imports of the subsets pass; 0
\* for a line of no group (the empty line, a registration).
Group(j) ==
    IF j < block_at[1] THEN 1
    ELSE IF j < block_at[Len(block_at)] THEN 2
    ELSE IF startswith(out[j], "from ") THEN 5
    ELSE IF \E i \in 1..Len(classes) : StatementLine(out[j], classes[i]) THEN 4
    ELSE IF \E i \in 1..Len(classes) : OperationLine(out[j], classes[i]) THEN 3
    ELSE 0

\* C12, as claimed: in the output of a finished run no line of a later group
\* precedes a line of an earlier group.
C12_GroupsInOrder ==
    pc = "done" =>
       \A j, k \in 1..Len(out) :
          (j < k /\ Group(j) # 0 /\ Group(k) # 0) => Group(j) <= Group(k)

PhaseRank(p) ==
    CASE p = "resolve" -> 0 [] p = "coder" -> 1 [] p = "order" -> 2
      [] p = "header" -> 3 [] p = "class_blocks" -> 4 [] p = "operations" -> 5
      [] p = "associations" -> 6 [] OTHER -> 7

\* C12, amended: the output only grows, the phases follow each other, and
\* each step adds the lines of its phase alone: the header and the override
\* header; the block of one class; the operation overrides of one class, all
\* of them, and after the last class one empty line; then class by class the
\* statements of the class followed by the imports and registrations of its
\* subsets.
C12_PhasesInOrder ==
    [][/\ SubSeq(out', 1, Len(out)) = out
       /\ PhaseRank(pc) <= PhaseRank(pc')
       /\ pc \in {"resolve", "coder", "order"} => Added = <<>>
       /\ pc = "header" =>
             Added = <<header>> \o (IF overrides.given THEN <<overrides.header>>
                                    ELSE <<>>)
       /\ (pc = "class_blocks" /\ phase_i <= Len(classes)) =>
             \A j \in 1..Len(Added) : ClassBlockLine(Added[j], classes[phase_i])
       /\ (pc = "operations" /\ phase_i <= Len(classes)) =>
             /\ \A j \in 1..Len(Added) : OperationLine(Added[j], classes[phase_i])
             /\ \A o \in Range(cls[classes[phase_i]].ownedOperation) :
                   has_override(fmt(cls[classes[phase_i]].name) \o "." \o fmt(o))
                   => \E j \in 1..Len(Added) :
                         Added[j] = get_override(fmt(cls[classes[phase_i]].name)
                                                 \o "." \o fmt(o))
       /\ (pc = "operations" /\ phase_i > Len(classes)) => Added = <<"">>
       /\ (pc = "associations" /\ phase_i <= Len(classes)) =>
             \E n \in 0..Len(Added) :
                /\ \A j \in 1..n : StatementLine(Added[j], classes[phase_i])
                /\ \A j \in (n + 1)..Len(Added) :
                      /\ SubsetLine(Added[j], classes[phase_i])
                      /\ ~StatementLine(Added[j], classes[phase_i])
       /\ (pc = "associations" /\ phase_i > Len(classes)) => Added = <<>>]_vars

\* A finished run whose output has an operation override, then a statement
\* of Owner, then the import for a subset of Owner, then a statement of Part.
C12_Witness ==
    /\ pc = "done"
    /\ \E i, j, k, l \in 1..Len(out) :
          /\ i < j /\ j < k /\ k < l
          /\ out[i] = get_override("Owner.op")
          /\ StatementLine(out[j], "c1")
          /\ out[k] = "from gaphor.UML import Root"
          /\ out[l] = "Part.owner = association(\"owner\", Owner)"

\* C13: a second call of coder on the unchanged model, super models and
\* overrides yields the lines of the first call, line for line while it runs,
\* and ends as the first call ended, with the same lines.
C13_SecondRunSameOutput ==
    run = 2 =>
       /\ Len(out) <= Len(first.out)
       /\ out = SubSeq(first.out, 1, Len(out))
       /\ pc \in {"done", "error"} => (pc = first.pc /\ out = first.out)

\* The second call has returned; its output has the import of a class from
\* the super model and an import of the subsets pass, so the first call left
\* a set of imported lines and a set of seen classes behind.
C13_Witness ==
    /\ run = 2
    /\ pc = "done"
    /\ InOut("from gaphor.UML import Element")
    /\ InOut("from gaphor.UML import Base")
    /\ Cardinality(already_imported) = 2
    /\ Len(classes) = 2

HasSlot(p, feature) ==
    \E i \in 1..Len(prop[p].slot) : prop[p].slot[i].definingFeature = feature

\* The attributes of a class that have a class type and no override.
Associable(c) ==
    {p \in Range(cls[c].ownedAttribute) :
        /\ prop[p].type # None
        /\ ~is_simple_type(prop[p].type) /\ ~is_enumeration(prop[p].type)
        /\ ~is_extension_end(p)
        /\ ~has_override(FullName(c, p))}

\* The positions in c.ownedAttribute of the attributes that are associable,
\* redefine nothing, are not derived and have no name.
Unclassified(c) ==
    {i \in 1..Len(cls[c].ownedAttribute) :
        LET p == cls[c].ownedAttribute[i]
        IN /\ p \in Associable(c)
           /\ ~HasSlot(p, "redefines")
           /\ ~prop[p].isDerived
           /\ prop[p].name = None}

\* C14: when the association phase comes to a class with an unnamed,
\* unclassified association end, the run ends in an error; all class blocks
\* are written by then; the step adds one line for each attribute owned
\* before that end that has an override or is an association end or derived
\* union, and no other line; no statement of the unnamed end is in the output.
C14_UnnamedAssociationFatal ==
    [][(/\ pc = "associations" /\ phase_i <= Len(classes)
        /\ Unclassified(classes[phase_i]) # {}) =>
         LET c == classes[phase_i]
             owned == cls[c].ownedAttribute
             at == CHOOSE i \in Unclassified(c) :
                      \A j \in Unclassified(c) : i <= j
             stated == {i \in 1..(at - 1) :
                          \/ has_override(FullName(c, owned[i]))
                          \/ /\ owned[i] \in Associable(c)
                             /\ ~HasSlot(owned[i], "redefines")}
         IN /\ pc' = "error"
            /\ Len(block_at) = Len(classes) + 1
            /\ \A k \in 1..Len(out') :
                  ~startswith(out'[k], FullName(c, owned[at]) \o " = ")
            /\ Len(Added) = Cardinality(stated)
            /\ \A i \in stated :
                  \E k \in 1..Len(Added) :
                     \/ startswith(Added[k],
                                   FullName(c, owned[i]) \o " = association(")
                     \/ startswith(Added[k],
                                   FullName(c, owned[i]) \o " = derivedunion(")
                     \/ /\ has_override(FullName(c, owned[i]))
                        /\ Added[k] = get_override(FullName(c, owned[i]))]_vars

\* The run has ended in the error at Owner's second attribute, an unnamed end
\* to Part, after the statement of the first attribute and of Base's ends.
C14_Witness ==
    /\ pc = "error"
    /\ Len(block_at) = Len(classes) + 1
    /\ 2 \in Unclassified("c1")
    /\ Len(cls["c1"].ownedAttribute) = 3
    /\ out[Len(out)] = "Owner.b = association(\"b\", Part)"
    /\ InOut("Base.items = association(\"items\", Part)")

\* The block of classes[i] was written to its end: variables() did not raise.
Complete(i) == i < Len(block_at) \/ pc # "error"

\* The attributes that a declaration writes as relations, as <<i, p>>: in a
\* declared class whose block is complete, no extension end, no override,
\* with a class type that is no enumeration and without type string.
RelationTyped ==
    {w \in Written :
        /\ Declared(w[1])
        /\ Complete(w[1])
        /\ ~is_extension_end(w[2])
        /\ ~has_override(FullName(classes[w[1]], w[2]))
        /\ prop[w[2]].type # None
        /\ ~truthy(prop[w[2]].typeValue)
        /\ ~is_enumeration(prop[w[2]].type)}

\* The association and derived union statements of attribute p of class c in
\* the output, as indices of `out`.
StatementsOf(c, p) ==
    {k \in 1..Len(out) :
        \/ startswith(out[k], FullName(c, p) \o " = association(")
        \/ startswith(out[k], FullName(c, p) \o " = derivedunion(")}

\* C15: the property line of a relation is relation_one when the upper bound
\* is "1" and relation_many otherwise; an association or derived union
\* statement has the argument `upper=<bound>` when the attribute has an upper
\* bound other than "*", and no `upper=` otherwise.
C15_UpperBoundWritten ==
    /\ \A w \in RelationTyped :
          LET a == prop[w[2]]
              one == "    " \o fmt(a.name) \o ": relation_one["
              many == "    " \o fmt(a.name) \o ": relation_many["
              lines == BlockLines(w[1])
          IN IF a.upperValue = "1"
               THEN /\ \E k \in 1..Len(lines) : startswith(lines[k], one)
                    /\ \A k \in 1..Len(lines) : ~startswith(lines[k], many)
             ELSE /\ \E k \in 1..Len(lines) : startswith(lines[k], many)
                  /\ \A k \in 1..Len(lines) : ~startswith(lines[k], one)
    /\ \A w \in Written :
          \A k \in StatementsOf(classes[w[1]], w[2]) :
             IF prop[w[2]].upperValue \in {None, "*"}
               THEN ~contains(out[k], "upper=")
             ELSE contains(out[k], ", upper=" \o prop[w[2]].upperValue \o ",")
                  \/ contains(out[k], ", upper=" \o prop[w[2]].upperValue \o ")")

\* A finished run that wrote an end with the upper bound "1" as relation_one
\* and with `upper=1`, and an end without upper bound as relation_many and
\* without `upper=`.
C15_Witness ==
    /\ pc = "done"
    /\ "p1" \in DOMAIN prop
    /\ prop["p1"].upperValue = "1"
    /\ prop["p1"].name = "part"
    /\ InOut("    part: relation_one[Part]")
    /\ InOut("Owner.part = association(\"part\", Part, upper=1)")
    /\ InOut("    owner: relation_many[Owner]")
    /\ InOut("Part.owner = association(\"owner\", Owner)")

\* The classes in which the target of a subset is looked for, in order, each
\* with the package to import it from (None for a class of the model): the
\* class itself, then its bases and theirs, then the class of its name in a
\* super model with the bases of that one.
RECURSIVE SearchPath(_, _, _)
RECURSIVE SearchPathOfBases(_, _, _)
SearchPath(c, supers, pkg) ==
    LET super_class == in_super_model(cls[c].name, supers)
    IN <<[c |-> c, pkg |-> pkg]>>
       \o SearchPathOfBases(bases(c), supers, pkg)
       \o (IF super_class.found
             THEN SearchPath(super_class.cls, <<>>, super_class.pkg)
           ELSE <<>>)

SearchPathOfBases(bs, supers, pkg) ==
    IF bs = <<>> THEN <<>>
    ELSE SearchPath(Head(bs), supers, pkg)
         \o SearchPathOfBases(Tail(bs), supers, pkg)

Owns(c, name) ==
    \E p \in Range(cls[c].ownedAttribute) : prop[p].name = name

\* The target of the name for class c: where it is found first, or nowhere.
Target(c, name) ==
    LET path == SearchPath(c, super_models, None)
        hits == {i \in 1..Len(path) : Owns(path[i].c, name)}
    IN IF hits = {} THEN [found |-> FALSE, c |-> None, pkg |-> None,
                          isDerived |-> FALSE]
       ELSE LET at == path[CHOOSE i \in hits : \A j \in hits : i <= j]
                owned == cls[at.c].ownedAttribute
                k == CHOOSE i \in 1..Len(owned) :
                        /\ prop[owned[i]].name = name
                        /\ \A j \in 1..(i - 1) : prop[owned[j]].name # name
            IN [found |-> TRUE, c |-> at.c, pkg |-> at.pkg,
                isDerived |-> prop[owned[k]].isDerived]

\* The subsetting attributes of class c with the names they subset, as
\* <<p, name>>.
Subsetting(c) ==
    {w \in Range(cls[c].ownedAttribute) \X {"members", "items", "missing",
                                             "elements"} :
        /\ prop[w[1]].type # None
        /\ ~is_simple_type(prop[w[1]].type)
        /\ ~is_enumeration(prop[w[1]].type)
        /\ ~is_extension_end(w[1])
        /\ \E i \in 1..Len(prop[w[1]].slot) :
              /\ prop[w[1]].slot[i].definingFeature = "subsets"
              /\ \E v \in Range(split_comma(prop[w[1]].slot[i].value)) :
                    strip(v) = w[2]}

Registration(c, w) ==
    fmt(cls[Target(c, w[2]).c].name) \o "." \o w[2] \o ".add("
    \o FullName(c, w[1]) \o ")  # type: ignore[attr-defined]"

Registered(c) ==
    {w \in Subsetting(c) : Target(c, w[2]).found /\ Target(c, w[2]).isDerived}

\* C16: when the association phase is done with a class without raising, it
\* has added one registration for each subsetting attribute and name whose
\* target is found and derived, and no other registration; for every other
\* name it has logged a warning; and the run goes on.
C16_SubsetsRegistered ==
    [][(/\ pc = "associations" /\ phase_i <= Len(classes)
        /\ Unclassified(classes[phase_i]) = {}) =>
         LET c == classes[phase_i]
             news == SubSeq(log', Len(log) + 1, Len(log'))
         IN /\ pc' = "associations"
            /\ phase_i' = phase_i + 1
            /\ \A w \in Registered(c) :
                  /\ \E k \in 1..Len(Added) : Added[k] = Registration(c, w)
                  /\ Target(c, w[2]).pkg # None =>
                        \E k \in 1..Len(out') :
                           out'[k] = "from " \o Target(c, w[2]).pkg \o " import "
                                     \o fmt(cls[Target(c, w[2]).c].name)
            /\ Cardinality({k \in 1..Len(Added) : contains(Added[k], ".add(")})
                 = Cardinality(Registered(c))
            /\ \A w \in Subsetting(c) \ Registered(c) :
                  \E k \in 1..Len(news) :
                     news[k] = FullName(c, w[1]) \o " wants to subset " \o w[2]
                               \o (IF Target(c, w[2]).found
                                     THEN ", but it is not a derived union"
                                   ELSE ", but it is not defined")
            /\ Len(news) = Cardinality(Subsetting(c) \ Registered(c))]_vars

\* A finished run in which an attribute of Owner subsets a derived union of
\* its base, a derived union of the super model, an end that is not derived
\* and a name that nothing has, and Part's statement follows.
C16_Witness ==
    /\ pc = "done"
    /\ Cardinality(Subsetting("c1")) = 4
    /\ Cardinality(Registered("c1")) = 2
    /\ \E i, j, k \in 1..Len(out) :
          /\ i < j /\ j < k
          /\ out[i] = "Base.members.add(Owner.b)  # type: ignore[attr-defined]"
          /\ out[j] = "Root.elements.add(Owner.b)  # type: ignore[attr-defined]"
          /\ out[k] = "Part.owner = association(\"owner\", Owner)"
    /\ \E k \in 1..Len(log) :
          log[k] = "Owner.b wants to subset missing, but it is not defined"

\* The plain association ends of the classes whose blocks are written, as
\* <<i, p>>: associable, named, not derived and redefining nothing.
PlainEnds ==
    {w \in Written :
        /\ w[2] \in Associable(classes[w[1]])
        /\ ~HasSlot(w[2], "redefines")
        /\ ~prop[w[2]].isDerived
        /\ prop[w[2]].name # None}

\* The opposite end of a exists and has a name and an owning class.
NamedOpposite(a) ==
    /\ a.opposite # None
    /\ prop[a.opposite].name # None
    /\ prop[a.opposite].class_ # None

\* C17: the association statement of a plain end has `lower=<bound>` exactly
\* when the lower bound is set and not "0", `upper=<bound>` exactly when the
\* upper bound is set and not "*", `composite=True` exactly when the
\* aggregation is composite and `opposite="<name>"` exactly when the opposite
\* end has a name and an owning class; a finished run has the statement.
C17_AssociationArguments ==
    \A w \in PlainEnds :
       LET a == prop[w[2]]
           start == FullName(classes[w[1]], w[2]) \o " = association(\""
                    \o a.name \o "\", " \o fmt(cls[a.type].name)
           lines == {out[k] : k \in {j \in 1..Len(out) : startswith(out[j], start)}}
       IN /\ pc = "done" => lines # {}
          /\ \A line \in lines :
                /\ IF a.lowerValue \in {None, "0"}
                     THEN ~contains(line, "lower=")
                   ELSE contains(line, ", lower=" \o a.lowerValue)
                /\ IF a.upperValue \in {None, "*"}
                     THEN ~contains(line, "upper=")
                   ELSE contains(line, ", upper=" \o a.upperValue)
                /\ contains(line, ", composite=True")
                     <=> a.aggregation = "composite"
                /\ IF NamedOpposite(a)
                     THEN contains(line, ", opposite=\"" \o prop[a.opposite].name
                                         \o "\")")
                   ELSE ~contains(line, "opposite=")

\* Finished runs wrote an end with both bounds, composite, and a named
\* opposite end of a class, with all four arguments in this order.
C17_Witness ==
    /\ pc = "done"
    /\ InOut("Owner.part = association(\"part\", Part, lower=1, upper=2, "
             \o "composite=True, opposite=\"owner\")")

\* The members of c for which variables() yields a line when it does not
\* raise: the attributes that are no extension end and are overridden or not
\* both derived and without type, and the overridden operations.
YieldingMembers(c) ==
    {p \in Range(cls[c].ownedAttribute) :
        /\ ~is_extension_end(p)
        /\ \/ has_override(FullName(c, p))
           \/ ~(prop[p].isDerived /\ prop[p].type = None)}
    \cup {o \in Range(cls[c].ownedOperation) :
             has_override(fmt(cls[c].name) \o "." \o fmt(o))}

\* The lines between the header of a complete class block and the two empty
\* lines that end it.
BodyLines(i) == SubSeq(BlockLines(i), 2, Len(BlockLines(i)) - 2)

ClassHeader(line, c) == startswith(line, "class " \o fmt(cls[c].name) \o "(")

\* C18, as claimed: every class header in the output is immediately followed
\* by an indented body line.
C18_HeaderHasBody ==
    \A i \in Begun :
        Declared(i) /\ BlockLines(i) # <<>> =>
            /\ ClassHeader(BlockLines(i)[1], classes[i])
            /\ Len(BlockLines(i)) >= 2
            /\ startswith(BlockLines(i)[2], "    ")

\* C18: a class block that is written to its end is the header, then at least
\* one indented body line and two empty lines; the body is the single line
\* `    pass` exactly when no member of the class yields a property line, also
\* when the class owns attributes, and holds no `    pass` otherwise. When
\* variables() raises the header is the last line of the output of the run.
C18_HeaderThenBodyOrPass ==
    \A i \in Begun :
        Declared(i) /\ BlockLines(i) # <<>> =>
            /\ ClassHeader(BlockLines(i)[1], classes[i])
            /\ IF Complete(i)
                 THEN /\ Len(BlockLines(i)) >= 4
                      /\ SubSeq(BlockLines(i), Len(BlockLines(i)) - 1,
                                Len(BlockLines(i))) = <<"", "">>
                      /\ \A k \in 1..Len(BodyLines(i)) :
                            startswith(BodyLines(i)[k], "    ")
                      /\ IF YieldingMembers(classes[i]) = {}
                           THEN BodyLines(i) = <<"    pass">>
                         ELSE /\ Len(BodyLines(i))
                                   = Cardinality(YieldingMembers(classes[i]))
                              /\ "    pass" \notin Range(BodyLines(i))
               ELSE /\ BlockLines(i) = <<out[Len(out)]>>
                    /\ variables(classes[i]).raised

\* A finished run with the block of Loose, whose attributes are all skipped,
\* and the block of a class with two property lines.
C18_Witness ==
    /\ pc = "done"
    /\ "c4" \in DOMAIN cls
    /\ \E i, j \in Begun :
          /\ classes[i] = "c4"
          /\ cls["c4"].ownedAttribute # <<>>
          /\ BlockLines(i) = <<"class Loose():", "    pass", "", "">>
          /\ Declared(j)
          /\ Len(BodyLines(j)) >= 2

\* The members of c with an advisory condition: the derived attributes
\* without type and the operations, when they have no override. The end of an
\* extension is skipped before the condition is looked at.
AdvisoryAttributes(c) ==
    {p \in Range(cls[c].ownedAttribute) :
        /\ ~is_extension_end(p)
        /\ ~has_override(FullName(c, p))
        /\ prop[p].isDerived
        /\ prop[p].type = None}

AdvisoryOperations(c) ==
    {o \in Range(cls[c].ownedOperation) :
        ~has_override(fmt(cls[c].name) \o "." \o fmt(o))}

\* The line of a class body that declares the member named n.
MemberLine(line, n) ==
    \/ startswith(line, "    " \o fmt(n) \o ": ")
    \/ startswith(line, "    " \o fmt(n) \o " = ")

MemberName(m) == IF m \in DOMAIN prop THEN prop[m].name ELSE m

Logged(text) == \E k \in 1..Len(log) : log[k] = text

\* C19: variables() raises for a class only at an attribute that has no
\* advisory condition; in a class block written to its end every derived
\* attribute without type and every operation without override has its
\* warning in the log and no line in the body, every other member that yields
\* has its line; after the block the loop goes on to the next class; and no
\* association statement is written for such an attribute.
C19_AdvisoryOnlyWarns ==
    \A i \in Begun :
        Declared(i) /\ BlockLines(i) # <<>> =>
            LET c == classes[i]
            IN /\ ~Complete(i) =>
                     \E p \in Range(cls[c].ownedAttribute)
                               \ AdvisoryAttributes(c) :
                         variable_of(c, p).raised
               /\ \A p \in AdvisoryAttributes(c) :
                     \A k \in 1..Len(out) : ~AssociationLine(out[k], c, p)
               /\ Complete(i) =>
                     /\ \A p \in AdvisoryAttributes(c) :
                           /\ Logged("Derived attribute " \o FullName(c, p)
                                     \o " has no implementation.")
                           /\ \A k \in 1..Len(BodyLines(i)) :
                                 MemberLine(BodyLines(i)[k], prop[p].name) =>
                                     \E m \in YieldingMembers(c) :
                                         MemberName(m) = prop[p].name
                     /\ \A o \in AdvisoryOperations(c) :
                           /\ Logged("Operation " \o fmt(cls[c].name) \o "."
                                     \o fmt(o) \o " has no implementation")
                           /\ \A k \in 1..Len(BodyLines(i)) :
                                 MemberLine(BodyLines(i)[k], o) =>
                                     \E m \in YieldingMembers(c) :
                                         MemberName(m) = o
                     /\ \A m \in YieldingMembers(c) :
                           \E k \in 1..Len(BodyLines(i)) :
                               MemberLine(BodyLines(i)[k], MemberName(m))
                     /\ i < Len(classes) /\ pc # "class_blocks" =>
                           i + 1 \in Begun

\* A finished run in which Owner has the derived attribute `a` without type,
\* sorted before the end `b`, and the operation `run` sorted after the
\* overridden `op`: both warnings are logged, the lines of `b` and `op` are
\* written, and the blocks of Loose and of Part are written as well.
C19_Witness ==
    /\ pc = "done"
    /\ {"p1", "p2"} \subseteq DOMAIN prop
    /\ "p2" \in AdvisoryAttributes("c1")
    /\ prop["p2"].name = "a"
    /\ Logged("Derived attribute Owner.a has no implementation.")
    /\ Logged("Operation Owner.run has no implementation")
    /\ Logged("Derived attribute Loose.size has no implementation.")
    /\ InOut("    b: relation_many[Part]")
    /\ \E k \in 1..Len(out) : MemberLine(out[k], "op")
    /\ ~(\E k \in 1..Len(out) :
            MemberLine(out[k], "a") \/ MemberLine(out[k], "run")
            \/ MemberLine(out[k], "size"))
    /\ InOut("class Part():")

\* The classes of the input of the one call of order_classes.
InputClasses == listed \cup Range(pending)

\* A class lies on a cycle of base edges.
OnCycle(c) == c \in AncestorsOf(c)

\* The traversal from the input comes to a class on a cycle.
CycleReached ==
    \E c \in InputClasses :
        OnCycle(c) \/ \E b \in AncestorsOf(c) : OnCycle(b)

\* C20, as claimed: on a graph with a cycle of generalizations order_classes
\* does not produce an ordering.
C20_NoOrderingWithCycle ==
    (\E c \in DOMAIN cls : OnCycle(c)) => pc # "header"

\* C20: order_classes returns its ordering when no class on a cycle of base
\* edges is reached from the classes of its input, and it never raises then;
\* when such a class is reached the nesting of order() calls grows to the
\* limit of the interpreter and no ordering is returned.
C20_TerminatesUnlessCycleReached ==
    /\ [](CycleReached => pc # "header")
    /\ [](~CycleReached => pc # "error")
    /\ (~CycleReached) ~> (pc = "header")
    /\ CycleReached ~> (pc = "error" /\ Len(stack) = RecursionLimit)

\* The recursion has reached the limit of the interpreter on a cycle of two
\* classes, after a class outside the cycle was yielded.
C20_Witness ==
    /\ pc = "error"
    /\ Len(stack) = RecursionLimit
    /\ classes # <<>>
    /\ stack[1].c # stack[2].c
    /\ stack[1].c = stack[3].c

\* C21: a visited property that was loaded with a class reference to a class
\* that is no simple type and without raw type string still refers to that
\* class and still has no raw type string, whatever the classes of the model.
C21_TypedPropertyUntouched ==
    \A p \in Visited :
        /\ loaded[p].type # None
        /\ ~is_simple_type(loaded[p].type)
        /\ loaded[p].typeValue = None
        => /\ prop[p].type = loaded[p].type
           /\ prop[p].typeValue = None

\* The marker of an edited model in the title.
Marker == " [" \o gettext("edited") \o "]"

WindowOpen == main_window.window # None

\* The title of the model file, before any marker.
BaseTitle ==
    IF main_window.filename = None THEN "Gaphor" ELSE stem(main_window.filename)

\* The file name that the last event of the file manager carried, as the
\* handler stores it.
LastFilename ==
    IF truthy(observed.last_file.filename) THEN observed.last_file.filename
    ELSE None

\* can_undo() as of the last undo event of an open window since the last
\* event of the file manager; FALSE without such an event.
LastCanUndo == observed.last_undo = <<TRUE>>

\* C22, as claimed: while the window is open its title ends with the marker
\* exactly when model_changed is true, model_changed is can_undo() as of the
\* last undo event since the last event of the file manager, and the file
\* name is the one of the last event of the file manager.
C22_TitleFollowsEvents ==
    WindowOpen =>
        /\ endswith(main_window.title, Marker) <=> main_window.model_changed
        /\ main_window.model_changed = LastCanUndo
        /\ main_window.filename = LastFilename

\* C22: while the window is open its title is the stem of the file name, or
\* Gaphor, followed by the marker exactly when model_changed is true, so
\* that without model_changed it ends with the marker only if the stem does;
\* and as long as shutdown has not been called, model_changed is can_undo()
\* as of the last undo event since the last event of the file manager and
\* the file name is the one of that event. After shutdown the handler of the
\* file manager events is not subscribed any more.
C22_TitleFollowsEventsUntilShutdown ==
    /\ WindowOpen =>
          /\ main_window.title
               = BaseTitle \o (IF main_window.model_changed THEN Marker ELSE "")
          /\ main_window.model_changed => endswith(main_window.title, Marker)
          /\ ~main_window.model_changed /\ endswith(main_window.title, Marker)
               => endswith(BaseTitle, Marker)
    /\ WindowOpen /\ observed.shutdowns = 0 =>
          /\ main_window.model_changed = LastCanUndo
          /\ main_window.filename = LastFilename
    /\ observed.shutdowns = 1 => FileManagerHandler \notin subscribed

\* The open window of a loaded model after an undo event with can_undo()
\* true: the title is the stem with the marker.
C22_Witness ==
    /\ WindowOpen
    /\ observed.shutdowns = 0
    /\ observed.last_file.type = "ModelLoaded"
    /\ observed.last_file.filename = "/home/user/model.gaphor"
    /\ observed.last_undo = <<TRUE>>
    /\ main_window.model_changed
    /\ main_window.title = "model [edited]"
    /\ main_window.subtitle = "~/model.gaphor"

\* The handlers that the main window has subscribed since its construction:
\* its four bound methods and the handler of every notifier that open made.
SubscribedByMainWindow ==
    {FileManagerHandler, UndoManagerHandler, ActionEnabledHandler,
     ModelingLanguageHandler}
    \cup {NotifierHandler("n" \o ToString(i)) : i \in 1..observed.opens}

\* C23: when shutdown() returns, the window reference and in_app_notifier
\* are None, none of the handlers that the main window subscribed is
\* subscribed to the event manager, and no handler was subscribed by the call.
C23_ShutdownLeavesNoHandler ==
    [][Shutdown =>
         /\ main_window'.window = None
         /\ main_window'.in_app_notifier = None
         /\ subscribed' \cap SubscribedByMainWindow = {}
         /\ subscribed' \subseteq subscribed]_vars

====
